---- MODULE Spec2Model ----
(***************************************************************************)
(* A model of the filter-cavity tuning session of fc_tune.py               *)
(* (fine_tune_nm and the helpers it calls).                                *)
(*                                                                         *)
(* Units.  Frequencies are in kHz; linear depths in units of 1e-4; a       *)
(* length coordinate of the optimizer is held as twentieths (a number v    *)
(* is stored as 20*v, so 0.1 is 2 and 0.5 is 10); a coupling coordinate is *)
(* in rotary motor steps.  A cost is held as its numerator over the fixed  *)
(* denominator err_lin^2 * err_depth^2.                                    *)
(*                                                                         *)
(* scipy.optimize.minimize is a library: the simplex search is modelled as *)
(* a driver that evaluates the initial simplex and then, per iteration,    *)
(* one, two or four points it proposes, calling the callback after each    *)
(* iteration, for at most maxiter iterations.  The proposed points depend  *)
(* on measured costs and are a nondeterministic choice.  Whether the       *)
(* library applies `bounds` to method 'nelder-mead' depends on the         *)
(* installed release: before 1.7 (June 2021) they are dropped with a       *)
(* RuntimeWarning, and those are the releases of the file's date (February *)
(* 2021) and the only ones a Python 2 file such as fc_tune.py can import;  *)
(* from 1.7 on every point is projected onto them.  boundsHonoured is      *)
(* drawn when the program starts.                                          *)
(***************************************************************************)
EXTENDS Integers, Sequences, FiniteSets, TLC

VARIABLES
    pc,                \* position of the session in fine_tune_nm
    exc,               \* the exception in flight or escaped ("none" if none)
    phase,             \* "none", "setup", "simplex" or "iter": who is running
    vna,               \* VNA settings: center, span, nop, bw, power
    vna_entry,         \* the VNA settings when fine_tune_nm was entered
    settings,          \* what netw.setoutrange() returned at line 49
    measuring,         \* qt.mstart() called and qt.mend() not yet
    zls,               \* linear stage position, microsteps
    tnm,               \* rotary motor position, steps
    lin_span,          \* argument lin_span (twentieths)
    coup_span,         \* argument coup_span (steps)
    x_min,             \* global x_min
    level_min,         \* global level_min
    nstep,             \* global nstep
    vnaspan,           \* global vnaspan
    levels_its,        \* global levels_its: the iteration log
    x0,                \* local x0
    xublin,            \* local xublin
    xliblin,           \* local xliblin
    initial_simplex,   \* local initial_simplex
    force_termination, \* local force_termination (FALSE until assigned)
    boundsHonoured,    \* the installed minimize applies bounds to nelder-mead
    sim,               \* minimize: the simplex being evaluated first
    k,                 \* minimize: vertices of the initial simplex evaluated
    iterations,        \* minimize: iterations completed
    ne,                \* minimize: function evaluations in this iteration
    x,                 \* f: the point being evaluated
    span,              \* phasegrad_VNA: the span of the last detection
    meas,              \* costfunction: the probe reports of the last call
    ret,               \* the value fine_tune_nm returned
    nop,               \* phasegrad_VNA: the nop of the last detection
    rbw,               \* phasegrad_VNA: the rbw of the last detection
    small_change,      \* argument small_change
    scan_coupling,     \* argument scan_coupling
    lookup,            \* the rows of lookuptble.csv: <<frequency, position>>
    positions,         \* position_lookup: local positions
    poses,             \* position_lookup: the list it returned
    det_pc,            \* position of a res_detect call in phasegrad_VNA
    args,              \* phasegrad_VNA and find_peaks: the arguments
    subints,           \* phasegrad_VNA: local subints
    interval,          \* phasegrad_VNA: traces acquired so far
    freqs,             \* phasegrad_VNA: local freqs (<<>> while unbound)
    det_settings,      \* phasegrad_VNA: local settings
    fault,             \* the instrument call that fails in this call
    res_freqs,         \* res_detect: the frequencies it returned
    tone,              \* tone_depth_lin: the tone it returned
    pull_pc,           \* position of a lin_stage_fine_tune call
    sets,              \* lin_stage_fine_tune: local sets
    sel_res,           \* lin_stage_fine_tune: local sel_res
    delf,              \* lin_stage_fine_tune: local delf
    m,                 \* lin_stage_fine_tune: local m
    tunes,             \* calls of tune_linstage made by lin_stage_fine_tune
    scan_pc,           \* position of a scan_coup call
    scan_i,            \* scan_coup: the loop variable i
    dep,               \* scan_coup: local dep
    current_position,  \* scan_coup: local current_position
    step,              \* scan_coup: argument step
    thetaspan,         \* scan_coup: argument thetaspan
    session,           \* calls of fine_tune_nm made so far
    reply_string,      \* AsciiReply.__init__: argument reply_string
    areply,            \* the AsciiReply constructed, or the error raised
    retstr,            \* AsciiReply.encode: the string returned
    bcommand,          \* the BinaryCommand constructed
    packed,            \* BinaryCommand.encode: the six bytes returned
    breply,            \* the BinaryReply constructed from the bytes
    tpc,               \* per thread: its position in AsciiDevice.send
    op,                \* per thread: the method of AsciiDevice it called
    message,           \* per thread: AsciiDevice.send: argument message
    send_reply,        \* per thread: AsciiDevice.send: local reply
    result,            \* per thread: the reply its method returned
    polled,            \* per thread: poll_until_idle has sent a poll
    raised,            \* per thread: the error its method raised
    lock,              \* AsciiSerial._lock: the owner and its depth
    wire_out,          \* commands written to the port, not yet handled
    wire_in,           \* reply lines waiting in the port's buffer
    moving,            \* per device address: the axis is moving
    last_port_op       \* the thread and kind of the last write or read

\* the state of the helpers when they are called on their own or by a cold
\* start of the session
coldVars == <<small_change, scan_coupling, lookup, positions, poses>>
detVars == <<det_pc, args, subints, interval, freqs, det_settings, fault, res_freqs>>
probeVars == <<tone>>
pullVars == <<pull_pc, sets, sel_res, delf, m, tunes>>
scanVars == <<scan_pc, scan_i, dep, current_position, step, thetaspan>>
helperVars == <<coldVars, detVars, probeVars, pullVars, scanVars>>

\* the state of the zaber.serial library
parserVars == <<reply_string, areply, retstr>>
binaryVars == <<bcommand, packed, breply>>
deviceVars == <<tpc, op, message, send_reply, result, polled, raised, lock,
                wire_out, wire_in, moving, last_port_op>>
zaberVars == <<parserVars, binaryVars, deviceVars>>

vars == <<pc, exc, phase, vna, vna_entry, settings, measuring, zls, tnm,
          lin_span, coup_span, x_min, level_min, nstep, vnaspan, levels_its,
          x0, xublin, xliblin, initial_simplex, force_termination,
          boundsHonoured, sim, k, iterations, ne, x, span, meas, ret,
          nop, rbw, helperVars, session, zaberVars>>

-----------------------------------------------------------------------------
(* Program constants *)

\* err_depth = 10 ** -3, in units of 1e-4
err_depth == 10
\* err_lin = 1e4 Hz, in kHz
err_lin == 10
\* options 'maxiter': 40
maxiter == 40
\* the target frequency fr of the session, kHz (5.2 GHz)
FR == 5200000
\* vnaspan = 200e6, 100e6, 50e6 Hz
Span200 == 200000
Span100 == 100000
Span50 == 50000
\* callback: if nstep>5, if nstep>20
NarrowAfter == 5
NarrowestAfter == 20
\* tone_depth_lin(centerfreq, span=0.1e6, rbw=1e5)
ProbeSpan == 100
ProbeRbw == 100
\* set_vna(fr, rbw=1e5)
SetVnaRbw == 100
\* set_vna: vna.set_power(10)
SetVnaPower == 10
\* costfunction: res_detect(..., rbw = 5e4)
CostRbw == 50
\* res_detect: phasegrad_VNA(..., points=1, max_nop=5e4, ...)
DetectPoints == 1
DetectMaxNop == 50000
\* set_vna: nop = 5 * vna_span / rbw
PointsPerRbw == 5
\* initial_simplex: x0[0] - 0.1, in twentieths
SimplexDx == 2
\* position_lookup: np.abs(x - fr) < 0.01 GHz, in kHz
LookupTol == 10000
\* position_lookup: i >= poses[-1] + 1.8 mm, in hundredths of a mm
MinSpacing == 180
\* scan_coup: range(int(thetaspan/step) + 1) with thetaspan = 2*np.pi and
\* step = np.pi/100: the quotient of the two floats is 199.99999999999997
ScanPasses == 200
\* scan_coup: tnm.move_relative(step), in units of np.pi/100
ScanStep == 1
\* scan_coup: thetaspan=2*np.pi, in units of np.pi/100
ThetaSpan == 200
\* scan_coup: if dep < -25, in dB
ScanThreshold == -25
\* lin_stage_fine_tune(fr, span = 500e6): the first detection window, kHz
PullSpan == 500000
\* lin_stage_fine_tune: res_detect(sel_res - 30e6, sel_res+30e6, rbw=1e5)
PullHalfWindow == 30000
PullRbw == 100
\* lin_stage_fine_tune: while abs(delf) > 1e6, in kHz
PullThreshold == 1000
\* lin_stage_fine_tune: if m>25: break
PullCap == 25
\* res_detect: phasegrad_VNA(..., vna_power=10, ...)
DetectPower == 10
\* the termination signal, Exception('Termination!!!')
Termination == "Termination!!!"

(* Bounds of the model *)

\* rows of a lookup table
MaxRows == 3
\* passes of a coupling scan that do not stop it, when the scan is called
\* by lin_stage_fine_tune or by fine_tune_nm
MaxScan == 2
\* passes of the coarse-puller that do not end its loop, when it is called
\* by fine_tune_nm
MaxPull == 2

\* function evaluations a session of Spec may make
MaxEvals == 5
\* calls of fine_tune_nm in a sequence of sessions
MaxSessions == 2
\* the farthest stage position, microsteps, from which another session of
\* the sequence is followed
MaxStart == 100000

-----------------------------------------------------------------------------
(* Helpers *)

Abs(a) == IF a >= 0 THEN a ELSE -a
Min2(a, b) == IF a <= b THEN a ELSE b
Max2(a, b) == IF a >= b THEN a ELSE b

\* int(a / b) of Python for b > 0: truncation towards zero
TruncDiv(a, b) == IF a >= 0 THEN a \div b ELSE -((-a) \div b)

\* Zaber_lin_stage.move_abs_mm: client.move_abs(int(position/self.step_to_mm)),
\* step_to_mm = 0.047625e-3; position p is X/20, so the microsteps are
\* int(X / 20 / 0.000047625) = int(X * 400000 / 381), computed as
\* X * 1049 + int(X * 331 / 381) to stay within the machine integers
move_abs_mm(X) == X * 1049 + TruncDiv(X * 331, 381)

\* the same call for a position of P hundredths of a mm, as the lookup
\* table holds them: int(P / 100 / 0.000047625) = int(P * 80000 / 381)
move_abs_mm_lookup(P) == TruncDiv(P * 80000, 381)

\* netw.setoutrange(): the VNA is moved to an out-of-band window; the call
\* returns the settings it found
OutCenter == 1000000
setoutrange(v) == [v EXCEPT !.center = OutCenter]

\* netw.setbackrange(s): the VNA is put back to the settings s
setbackrange(s) == s

\* set_vna(fr, rbw) on VNA settings v
set_vna(v, f, bw) ==
    [v EXCEPT !.bw = bw, !.center = f,
              !.nop = (PointsPerRbw * v.span) \div bw, !.power = SetVnaPower]

\* the VNA settings while tone_depth_lin(centerfreq) acquires its trace
\* (lines 267-271)
tone_depth_lin_vna(v, centerfreq) ==
    set_vna([setoutrange(v) EXCEPT !.span = ProbeSpan], centerfreq, ProbeRbw)

\* phasegrad_VNA, lines 61-69 and 79: the span set on the VNA for a
\* detection in [fmin, fmax]: the window, or one of its sub-intervals when
\* points * span / rbw exceeds max_nop
CeilDiv(a, b) == (a + b - 1) \div b
phasegrad_span(fmin, fmax, resolution) ==
    LET sp == fmax - fmin
        n == (DetectPoints * sp) \div resolution
    IN IF n > DetectMaxNop THEN sp \div CeilDiv(n, DetectMaxNop) ELSE sp

\* phasegrad_VNA, lines 61-69 and 80: the nop set on the VNA for that
\* detection
phasegrad_nop(fmin, fmax, resolution) ==
    LET n == (DetectPoints * (fmax - fmin)) \div resolution
    IN IF n > DetectMaxNop THEN DetectMaxNop ELSE n

\* costfunction, line 295: res_detect(fr - span/2., fr + span/2., rbw = 5e4)
costfunction_span(f, sp) == phasegrad_span(f - sp \div 2, f + sp \div 2, CostRbw)

\* np.min(dic['lin'] + dic['dep']) of costfunction, over the probe reports ms
\* (a non-empty sequence of [Frequency, depth])
CostTerm(r, f) ==
    (r.Frequency - f) * (r.Frequency - f) * err_depth * err_depth
    + r.depth * r.depth * err_lin * err_lin

RECURSIVE NpMin(_)
NpMin(s) == IF Len(s) = 1 THEN s[1] ELSE Min2(s[1], NpMin(Tail(s)))

\* np.argmin: the first index of the minimum
ArgMin(q) == CHOOSE j \in 1..Len(q) : q[j] = NpMin(q) /\ \A i \in 1..(j - 1) : q[i] > q[j]

costfunction_max(f, ms) == -NpMin([i \in 1..Len(ms) |-> -CostTerm(ms[i], f)])
costfunction(f, ms) == NpMin([i \in 1..Len(ms) |-> CostTerm(ms[i], f)])

\* callback: the span after nstep has been incremented to n
callback_span_off(n, s) ==
    IF n >= NarrowestAfter THEN Span50 ELSE IF n >= NarrowAfter THEN Span100 ELSE s
callback_span(n, s) ==
    IF n > NarrowestAfter THEN Span50 ELSE IF n > NarrowAfter THEN Span100 ELSE s

\* except Exception as inst: if not str(inst) == 'Termination!!!': raise
IsTermination_never(e) == FALSE
\* except Exception: every error is taken for the termination signal
IsTermination_any(e) == TRUE
IsTermination(e) == e = Termination

\* minimize: while (... iterations < maxiter)
LoopContinues_nocap(it) == TRUE
LoopContinues(it) == it < maxiter

\* minimize with bounds = ((xliblin, xublin), (0, None)): the projection
\* of a point onto the bounds
Clip(p, lo, hi) == <<Max2(lo, Min2(hi, p[1])), Max2(0, p[2])>>
Bounded(p, lo, hi) == IF boundsHonoured THEN Clip(p, lo, hi) ELSE p

-----------------------------------------------------------------------------
(* Inputs *)

NoPoint == <<0, 0>>
NoSettings == [center |-> 0, span |-> 0, nop |-> 0, bw |-> 0, power |-> 0]
NoArgs == [fmin |-> 0, fmax |-> 0, resolution |-> 0, max_nop |-> 0, points |-> 0,
           dist_peaks |-> 0, svw |-> 0]
NoTone == [depth |-> 0, Frequency |-> 0, trace |-> <<>>]

VnaAtTarget == [center |-> FR, span |-> Span200, nop |-> 10000, bw |-> 100, power |-> SetVnaPower]
VnaElsewhere == [center |-> 4000000, span |-> Span50, nop |-> 1001, bw |-> 50, power |-> 0]

\* what one probe of a candidate reports
Reports == { [Frequency |-> FR, depth |-> 20],
             [Frequency |-> FR + 30, depth |-> 5] }
MeasWide == {<<>>} \cup {<<r>> : r \in Reports}
              \cup {<<r, q>> : r \in Reports, q \in Reports}
MeasNarrow == {<<>>, <<[Frequency |-> FR + 30, depth |-> 20]>>}

\* depths the probe at the target reports: below and above err_depth
Depths == {5, 20}

\* displacements from x0 of the points the simplex search proposes
StepsWide == {<<-12, -3>>, <<12, 1>>}
StepsNarrow == {<<-1, 1>>}

\* lookup tables of a session: no row near the target, one, and two more
\* than 1.8 mm apart
ColdTables == { << <<FR + 30000, 100>> >>, << <<FR, 100>> >>,
                << <<FR, 100>>, <<FR - 5000, 300>> >> }

\* what the probes of the resonances detected around the target report to
\* lin_stage_fine_tune: none, one within 1 MHz of the target, one 5 MHz
\* above it, and two of which the farther is the deeper
PullMeas == { <<>>, <<[Frequency |-> FR + 400, depth |-> 20]>>,
              <<[Frequency |-> FR + 5000, depth |-> 20]>>,
              <<[Frequency |-> FR + 2000, depth |-> 30],
                [Frequency |-> FR + 5000, depth |-> 5]>> }
\* what a detection around the selected resonance returns
PullLists == { <<>>, <<FR + 400>>, <<FR + 5000>>, <<FR + 2000, FR + 5000>> }
\* displacements of the linear stage by tune_linstage, microsteps
Retunes == {-4, 4}

\* depths in dB a sample of the coupling scan reports
Deps == {-30, -25, -10}

\* lookup tables: rows <<frequency in kHz, position in hundredths of a mm>>,
\* at the target, 5 MHz below it and 30 MHz above it
Rows == {FR - 5000, FR, FR + 30000} \X {100, 200, 280, 500}
Tables == UNION {[1..n -> Rows] : n \in 1..MaxRows}

\* |trace|**2 of a sample of a probe, in units of 1e-4
Amps == {5, 20, 30}
\* frequencies probed
Centers == {FR, FR + 30}

\* arguments of a detection: a window of two and of three stitched
\* sub-intervals of 4 points, and single traces of 7 points with dist_peaks
\* a multiple of the point spacing, not a multiple, and with the default
\* Savitzky-Golay window
DetectArg(lo, hi, res, mx, dist, w) ==
    [fmin |-> FR + lo, fmax |-> FR + hi, resolution |-> res, max_nop |-> mx,
     points |-> DetectPoints, dist_peaks |-> dist, svw |-> w]
DetectArgs == { DetectArg(-12, 12, 3, 4, 10, 5), DetectArg(-18, 18, 3, 4, 10, 5),
                DetectArg(-21, 21, 6, 8, 14, 5), DetectArg(-21, 21, 6, 8, 16, 5),
                DetectArg(-21, 21, 6, 8, 14, 101) }

\* thetaspan and step of a scan, in units of np.pi/100: the defaults, a
\* range of two steps, and a step that does not divide the range
ScanArgs == {<<ThetaSpan, ScanStep>>, <<2, 1>>, <<200, 3>>}

LinSpans == {1, 10}
CoupSpans == {20}
ZlsStarts == {3}
TnmStarts == {-1, 2}

-----------------------------------------------------------------------------
(* Initial states *)

InitWith(vnas, tnms, honoured) ==
    /\ pc = "idle"
    /\ exc = "none"
    /\ phase = "none"
    /\ vna \in vnas
    /\ vna_entry = vna
    /\ settings = NoSettings
    /\ measuring = FALSE
    /\ zls \in ZlsStarts
    /\ tnm \in tnms
    /\ lin_span = 0
    /\ coup_span = 0
    /\ x_min = NoPoint
    /\ level_min = 0
    /\ nstep = 0
    /\ vnaspan = Span200
    /\ levels_its = <<>>
    /\ x0 = NoPoint
    /\ xublin = 0
    /\ xliblin = 0
    /\ initial_simplex = <<>>
    /\ force_termination = FALSE
    /\ boundsHonoured \in honoured
    /\ sim = <<>>
    /\ k = 0
    /\ iterations = 0
    /\ ne = 0
    /\ x = NoPoint
    /\ span = 0
    /\ meas = <<>>
    /\ ret = <<>>
    /\ nop = 0
    /\ rbw = 0
    /\ session = 0

\* the defaults of the arguments small_change and scan_coupling
DefaultArgs ==
    /\ small_change = TRUE
    /\ scan_coupling = FALSE

\* no helper has been called
IdleHelpers ==
    /\ lookup = <<>>
    /\ positions = <<>>
    /\ poses = <<>>
    /\ det_pc = "idle"
    /\ args = NoArgs
    /\ subints = 0
    /\ interval = 0
    /\ freqs = <<>>
    /\ det_settings = NoSettings
    /\ fault = "none"
    /\ res_freqs = <<>>
    /\ tone = NoTone
    /\ pull_pc = "idle"
    /\ sets = NoSettings
    /\ sel_res = 0
    /\ delf = 0
    /\ m = 0
    /\ tunes = 0
    /\ scan_pc = "idle"
    /\ scan_i = 0
    /\ dep = 0
    /\ current_position = 0
    /\ step = ScanStep
    /\ thetaspan = ThetaSpan

\* nothing has been parsed
NoReply == [error |-> "none", checksum |-> <<>>, message_type |-> "",
            device_address |-> 0, axis_number |-> 0, message_id |-> -1,
            reply_flag |-> <<>>, device_status |-> <<>>, warning_flag |-> <<>>,
            data |-> <<>>]
\* two threads, each with an AsciiDevice of its own address on one port
Threads == {1, 2}
Address(t) == t
NoOp == [kind |-> "", blocking |-> FALSE]
NoCommand == [device_address |-> 0, axis_number |-> 0, message_id |-> -1, data |-> <<>>]
NoLine == [device_address |-> 0, axis_number |-> 0, message_id |-> -1,
           device_status |-> "", answers |-> 0]
NoError == [error |-> "none", reply |-> NoLine]
Unlocked == [owner |-> 0, depth |-> 0]
NoMessage == [device_number |-> 0, command_number |-> 0, data |-> 0, message_id |-> -1]
IdleZaber ==
    /\ reply_string = <<>>
    /\ areply = NoReply
    /\ retstr = <<>>
    /\ bcommand = NoMessage
    /\ packed = <<>>
    /\ breply = NoMessage
    /\ tpc = [t \in Threads |-> "idle"]
    /\ op = [t \in Threads |-> NoOp]
    /\ message = [t \in Threads |-> NoCommand]
    /\ send_reply = [t \in Threads |-> NoLine]
    /\ result = [t \in Threads |-> NoLine]
    /\ polled = [t \in Threads |-> FALSE]
    /\ raised = [t \in Threads |-> NoError]
    /\ lock = Unlocked
    /\ wire_out = <<>>
    /\ wire_in = <<>>
    /\ moving = [a \in 1..2 |-> FALSE]
    /\ last_port_op = <<0, "">>

Init ==
    InitWith({VnaAtTarget, VnaElsewhere}, TnmStarts, BOOLEAN) /\ DefaultArgs /\ IdleHelpers /\ IdleZaber

-----------------------------------------------------------------------------
(* fine_tune_nm *)

\* line 58: levels_its = [], whatever the global held
levels_its_kept(l) == l
levels_its_reset(l) == <<>>

\* lines 48-59: qt.mstart(), settings = netw.setoutrange(), the globals
\* are reset.  setoutrange is an instrument call and may raise.
fine_tune_nm_call(ls, cs) ==
    /\ measuring' = TRUE
    /\ vna_entry' = vna
    /\ lin_span' = ls
    /\ coup_span' = cs
    /\ \/ /\ settings' = vna
          /\ vna' = setoutrange(vna)
          /\ x_min' = NoPoint
          /\ level_min' = 0
          /\ nstep' = 0
          /\ vnaspan' = Span200
          /\ levels_its' = levels_its_reset(levels_its)
          /\ pc' = "setup"
          /\ phase' = "setup"
          /\ exc' = "none"
       \/ /\ exc' = "IOError"
          /\ pc' = "raised"
          /\ phase' = "setup"
          /\ UNCHANGED <<settings, vna, x_min, level_min, nstep, vnaspan, levels_its>>
    /\ session' = session + 1
    /\ UNCHANGED <<zls, tnm, boundsHonoured, ret, helperVars, zaberVars>>

\* the first call of fine_tune_nm
fine_tune_nm_enter(ls, cs) ==
    /\ pc = "idle"
    /\ fine_tune_nm_call(ls, cs)
    /\ UNCHANGED <<x0, xublin, xliblin, initial_simplex, force_termination,
                   sim, k, iterations, ne, x, span, meas, nop, rbw>>

\* a later call, after the call before it returned or raised: the locals
\* of that call are gone.  cap bounds the calls, and far bounds the stage
\* position from which the model follows another call.
fine_tune_nm_again(ls, cs, cap, far) ==
    /\ pc \in {"returned", "raised"}
    /\ session < cap
    /\ Abs(zls) <= far
    /\ fine_tune_nm_call(ls, cs)
    /\ x0' = NoPoint
    /\ xublin' = 0
    /\ xliblin' = 0
    /\ initial_simplex' = <<>>
    /\ force_termination' = FALSE
    /\ sim' = <<>>
    /\ k' = 0
    /\ iterations' = 0
    /\ ne' = 0
    /\ x' = NoPoint
    /\ span' = 0
    /\ meas' = <<>>
    /\ nop' = 0
    /\ rbw' = 0

\* lines 101-118, once the cold start and the coupling scan are done or
\* with small_change=True, scan_coupling=False (the defaults) skipped:
\* lin_ini = zls.current_position(), coup_ini = tnm.get_position(), the
\* bounds and the initial simplex
fine_tune_nm_setup ==
    /\ \/ pc = "setup" /\ small_change /\ ~scan_coupling
       \/ pc = "coupling" /\ ~scan_coupling
       \/ pc = "ini"
    /\ LET lin_ini == 20 * zls
           coup_ini == tnm
       IN /\ x0' = <<lin_ini, coup_ini>>
          /\ xublin' = lin_ini + lin_span
          /\ xliblin' = lin_ini - lin_span
          /\ initial_simplex' = << <<lin_ini, coup_ini>>,
                                   <<lin_ini - SimplexDx, coup_ini>>,
                                   <<lin_ini, coup_ini + coup_span \div 20>> >>
    /\ pc' = "minimize"
    /\ UNCHANGED <<exc, phase, vna, vna_entry, settings, measuring, zls, tnm,
                   lin_span, coup_span, x_min, level_min, nstep, vnaspan,
                   levels_its, force_termination, boundsHonoured, sim, k,
                   iterations, ne, x, span, meas, ret>>
    /\ UNCHANGED <<nop, rbw, helperVars, session, zaberVars>>

\* line 150: minimize(f, x0, method='nelder-mead', bounds=..., options=
\* {'initial_simplex': ..., 'maxiter': 40}) starts: the simplex is taken
\* (projected onto the bounds when the library applies them) and its first
\* vertex is evaluated
minimize_start ==
    /\ pc = "minimize"
    /\ sim' = [i \in 1..3 |-> Bounded(initial_simplex[i], xliblin, xublin)]
    /\ k' = 1
    /\ x' = sim'[1]
    /\ iterations' = 0
    /\ ne' = 0
    /\ phase' = "simplex"
    /\ pc' = "f_move"
    /\ UNCHANGED <<exc, vna, vna_entry, settings, measuring, zls, tnm,
                   lin_span, coup_span, x_min, level_min, nstep, vnaspan,
                   levels_its, x0, xublin, xliblin, initial_simplex,
                   force_termination, boundsHonoured, span, meas, ret>>
    /\ UNCHANGED <<nop, rbw, helperVars, session, zaberVars>>

\* parameter_changer without the rotary move
parameter_changer_no_rotary ==
    /\ pc = "f_move"
    /\ \/ /\ zls' = move_abs_mm(x[1])
          /\ pc' = "f_cost"
          /\ exc' = exc
       \/ /\ exc' = "IOError"
          /\ pc' = "except"
          /\ zls' = zls
    /\ UNCHANGED <<tnm, phase, vna, vna_entry, settings, measuring, lin_span,
                   coup_span, x_min, level_min, nstep, vnaspan, levels_its,
                   x0, xublin, xliblin, initial_simplex, force_termination,
                   boundsHonoured, sim, k, iterations, ne, x, span, meas, ret>>
    /\ UNCHANGED <<nop, rbw, helperVars, session, zaberVars>>

\* lines 62-65, 75: parameter_changer(x): zls.move_abs_mm(x[0]),
\* tnm.move_absolute(x[1]), tnm.wait(); either motor call may raise
parameter_changer ==
    /\ pc = "f_move"
    /\ \/ /\ zls' = move_abs_mm(x[1])
          /\ tnm' = x[2]
          /\ pc' = "f_cost"
          /\ exc' = exc
       \/ /\ exc' = "IOError"
          /\ pc' = "except"
          /\ UNCHANGED <<zls, tnm>>
       \/ /\ zls' = move_abs_mm(x[1])
          /\ exc' = "IOError"
          /\ pc' = "except"
          /\ tnm' = tnm
    /\ UNCHANGED <<phase, vna, vna_entry, settings, measuring, lin_span,
                   coup_span, x_min, level_min, nstep, vnaspan, levels_its,
                   x0, xublin, xliblin, initial_simplex, force_termination,
                   boundsHonoured, sim, k, iterations, ne, x, span, meas, ret>>
    /\ UNCHANGED <<nop, rbw, helperVars, session, zaberVars>>

\* f without line 81: nothing is logged
levels_its_unlogged(l, p, level) == l

\* line 81: levels_its.append([x[0], x[1], level])
levels_its_append(l, p, level) == Append(l, <<p[1], p[2], level>>)

\* lines 79-81 and costfunction (288-311): level = costfunction(fr,
\* span=vnaspan); levels_its.append([x[0], x[1], level]).  ms is what the
\* probes of the detected candidates report.  res_detect restores the VNA
\* before an error leaves it (the error that leaves phasegrad_VNA's finally
\* block is an UnboundLocalError); a probe that raises leaves the VNA on its
\* own window; np.min of no candidate raises ValueError.
f_costfunction(Ms) ==
    /\ pc = "f_cost"
    /\ span' = costfunction_span(FR, vnaspan)
    /\ nop' = phasegrad_nop(FR - vnaspan \div 2, FR + vnaspan \div 2, CostRbw)
    /\ rbw' = CostRbw
    /\ \/ \E ms \in Ms :
            /\ meas' = ms
            /\ IF ms = <<>>
               THEN /\ exc' = "ValueError"
                    /\ pc' = "except"
                    /\ levels_its' = levels_its
               ELSE /\ levels_its' = levels_its_append(levels_its, x, costfunction(FR, ms))
                    /\ pc' = "f_depth"
                    /\ exc' = exc
            /\ vna' = vna
       \/ /\ exc' = "UnboundLocalError"
          /\ pc' = "except"
          /\ UNCHANGED <<vna, meas, levels_its>>
       \/ \E r \in Reports :
            /\ exc' = "IOError"
            /\ pc' = "except"
            /\ vna' = tone_depth_lin_vna(vna, r.Frequency)
            /\ UNCHANGED <<meas, levels_its>>
    /\ UNCHANGED <<phase, vna_entry, settings, measuring, zls, tnm, lin_span,
                   coup_span, x_min, level_min, nstep, vnaspan, x0, xublin,
                   xliblin, initial_simplex, force_termination, boundsHonoured,
                   sim, k, iterations, ne, x, ret>>
    /\ UNCHANGED <<helperVars, session, zaberVars>>

\* lines 82-90: lp = tone_depth_lin(fr)['depth']; below err_depth the
\* termination signal is raised, otherwise the best-so-far pair is updated
\* and the level returned to minimize
f_depth_check ==
    /\ pc = "f_depth"
    /\ \/ \E lp \in Depths :
            /\ IF lp < err_depth
               THEN /\ exc' = Termination
                    /\ pc' = "except"
                    /\ UNCHANGED <<x_min, level_min>>
               ELSE LET level == levels_its[Len(levels_its)][3]
                    IN /\ IF level < level_min
                          THEN /\ level_min' = level
                               /\ x_min' = x
                          ELSE UNCHANGED <<x_min, level_min>>
                       /\ pc' = "nm_ret"
                       /\ exc' = exc
            /\ vna' = vna
       \/ /\ exc' = "IOError"
          /\ pc' = "except"
          /\ vna' = tone_depth_lin_vna(vna, FR)
          /\ UNCHANGED <<x_min, level_min>>
    /\ UNCHANGED <<phase, vna_entry, settings, measuring, zls, tnm, lin_span,
                   coup_span, nstep, vnaspan, levels_its, x0, xublin, xliblin,
                   initial_simplex, force_termination, boundsHonoured, sim, k,
                   iterations, ne, x, span, meas, ret>>
    /\ UNCHANGED <<nop, rbw, helperVars, session, zaberVars>>


-----------------------------------------------------------------------------
(* The simplex search of minimize, and the callback *)

\* f returned a level for a vertex of the initial simplex: the next vertex
\* is evaluated
minimize_next_vertex ==
    /\ pc = "nm_ret"
    /\ phase = "simplex"
    /\ k < 3
    /\ k' = k + 1
    /\ x' = sim[k + 1]
    /\ pc' = "f_move"
    /\ UNCHANGED <<exc, phase, vna, vna_entry, settings, measuring, zls, tnm,
                   lin_span, coup_span, x_min, level_min, nstep, vnaspan,
                   levels_its, x0, xublin, xliblin, initial_simplex,
                   force_termination, boundsHonoured, sim, iterations, ne,
                   span, meas, ret>>
    /\ UNCHANGED <<nop, rbw, helperVars, session, zaberVars>>

\* the initial simplex is evaluated: the iterations begin
minimize_simplex_done ==
    /\ pc = "nm_ret"
    /\ phase = "simplex"
    /\ k = 3
    /\ phase' = "iter"
    /\ pc' = "nm_loop"
    /\ UNCHANGED <<exc, vna, vna_entry, settings, measuring, zls, tnm,
                   lin_span, coup_span, x_min, level_min, nstep, vnaspan,
                   levels_its, x0, xublin, xliblin, initial_simplex,
                   force_termination, boundsHonoured, sim, k, iterations, ne,
                   x, span, meas, ret>>
    /\ UNCHANGED <<nop, rbw, helperVars, session, zaberVars>>

\* the head of the loop: it ends at the iteration cap or when the simplex
\* is within tol = 0.01 (xatol and fatol; the sizes are measured values, so
\* a choice); else the iteration proposes its first point (the reflection).
\* cap bounds the evaluations of a session of the model.
minimize_loop(Steps, cap) ==
    /\ pc = "nm_loop"
    /\ \/ /\ ~LoopContinues(iterations)
          /\ pc' = "nm_done"
          /\ UNCHANGED <<x, ne>>
       \/ /\ LoopContinues(iterations)
          /\ pc' = "nm_done"
          /\ UNCHANGED <<x, ne>>
       \/ /\ LoopContinues(iterations)
          /\ Len(levels_its) < cap
          /\ \E d \in Steps :
               x' = Bounded(<<x0[1] + d[1], x0[2] + d[2]>>, xliblin, xublin)
          /\ ne' = 1
          /\ pc' = "f_move"
    /\ UNCHANGED <<exc, phase, vna, vna_entry, settings, measuring, zls, tnm,
                   lin_span, coup_span, x_min, level_min, nstep, vnaspan,
                   levels_its, x0, xublin, xliblin, initial_simplex,
                   force_termination, boundsHonoured, sim, k, iterations,
                   span, meas, ret>>
    /\ UNCHANGED <<nop, rbw, helperVars, session, zaberVars>>

\* within an iteration: after the reflection an expansion or a contraction
\* may be evaluated, and after a failed contraction the two shrunk vertices
minimize_more(Steps, cap) ==
    /\ pc = "nm_ret"
    /\ phase = "iter"
    /\ ne \in {1, 2, 3}
    /\ Len(levels_its) < cap
    /\ \E d \in Steps :
         x' = Bounded(<<x0[1] + d[1], x0[2] + d[2]>>, xliblin, xublin)
    /\ ne' = ne + 1
    /\ pc' = "f_move"
    /\ UNCHANGED <<exc, phase, vna, vna_entry, settings, measuring, zls, tnm,
                   lin_span, coup_span, x_min, level_min, nstep, vnaspan,
                   levels_its, x0, xublin, xliblin, initial_simplex,
                   force_termination, boundsHonoured, sim, k, iterations,
                   span, meas, ret>>
    /\ UNCHANGED <<nop, rbw, helperVars, session, zaberVars>>

\* the iteration is complete (after 1, 2 or 4 evaluations): iterations += 1
\* and the callback is called
minimize_iter_end ==
    /\ pc = "nm_ret"
    /\ phase = "iter"
    /\ ne \in {1, 2, 4}
    /\ iterations' = iterations + 1
    /\ pc' = "callback"
    /\ UNCHANGED <<exc, phase, vna, vna_entry, settings, measuring, zls, tnm,
                   lin_span, coup_span, x_min, level_min, nstep, vnaspan,
                   levels_its, x0, xublin, xliblin, initial_simplex,
                   force_termination, boundsHonoured, sim, k, ne, x, span,
                   meas, ret>>
    /\ UNCHANGED <<nop, rbw, helperVars, session, zaberVars>>

\* lines 124-145: callback(xk): nstep += 1, the span is narrowed,
\* vna.set_span(vnaspan), set_vna(fr), tone_depth_lin(fr) and the
\* termination signal below err_depth.  vna.set_span and the probe are
\* instrument calls and may raise.
callback ==
    /\ pc = "callback"
    /\ nstep' = nstep + 1
    /\ vnaspan' = callback_span(nstep', vnaspan)
    /\ \/ /\ exc' = "IOError"
          /\ pc' = "except"
          /\ vna' = vna
       \/ /\ exc' = "IOError"
          /\ pc' = "except"
          /\ vna' = tone_depth_lin_vna(
                       set_vna([vna EXCEPT !.span = vnaspan'], FR, SetVnaRbw), FR)
       \/ \E level \in Depths :
            /\ vna' = set_vna([vna EXCEPT !.span = vnaspan'], FR, SetVnaRbw)
            /\ IF level < err_depth
               THEN /\ exc' = Termination
                    /\ pc' = "except"
               ELSE /\ exc' = exc
                    /\ pc' = "nm_loop"
    /\ UNCHANGED <<phase, vna_entry, settings, measuring, zls, tnm, lin_span,
                   coup_span, x_min, level_min, levels_its, x0, xublin,
                   xliblin, initial_simplex, force_termination, boundsHonoured,
                   sim, k, iterations, ne, x, span, meas, ret>>
    /\ UNCHANGED <<nop, rbw, helperVars, session, zaberVars>>

-----------------------------------------------------------------------------
(* The exits of fine_tune_nm *)

\* lines 155-157: minimize returned: force_termination = False, qt.msleep()
minimize_return ==
    /\ pc = "nm_done"
    /\ force_termination' = FALSE
    /\ pc' = "finish"
    /\ UNCHANGED <<exc, phase, vna, vna_entry, settings, measuring, zls, tnm,
                   lin_span, coup_span, x_min, level_min, nstep, vnaspan,
                   levels_its, x0, xublin, xliblin, initial_simplex,
                   boundsHonoured, sim, k, iterations, ne, x, span, meas, ret>>
    /\ UNCHANGED <<nop, rbw, helperVars, session, zaberVars>>

\* lines 158-161: except Exception as inst: anything but the termination
\* signal is raised again, to the caller
handler ==
    /\ pc = "except"
    /\ IF IsTermination(exc)
       THEN /\ force_termination' = TRUE
            /\ pc' = "finish"
       ELSE /\ pc' = "raised"
            /\ UNCHANGED force_termination
    /\ UNCHANGED <<exc, phase, vna, vna_entry, settings, measuring, zls, tnm,
                   lin_span, coup_span, x_min, level_min, nstep, vnaspan,
                   levels_its, x0, xublin, xliblin, initial_simplex,
                   boundsHonoured, sim, k, iterations, ne, x, span, meas, ret>>
    /\ UNCHANGED <<nop, rbw, helperVars, session, zaberVars>>

\* the names of what line 166 returns
Returned == {"levels_its"}

\* fine_tune_nm with a last move to the best vertex seen, x_min, before it
\* returns
finish_at_minimum ==
    /\ pc = "finish"
    /\ vna' = [setbackrange(settings) EXCEPT !.center = FR]
    /\ measuring' = FALSE
    /\ ret' = [n \in Returned |-> levels_its]
    /\ zls' = move_abs_mm(x_min[1])
    /\ tnm' = x_min[2]
    /\ pc' = "returned"
    /\ UNCHANGED <<exc, phase, vna_entry, settings, lin_span,
                   coup_span, x_min, level_min, nstep, vnaspan, levels_its,
                   x0, xublin, xliblin, initial_simplex, force_termination,
                   boundsHonoured, sim, k, iterations, ne, x, span, meas>>
    /\ UNCHANGED <<nop, rbw, helperVars, session, zaberVars>>

\* lines 163-166: netw.setbackrange(settings), vna.set_centerfreq(fr),
\* qt.mend(), return levels_its
finish ==
    /\ pc = "finish"
    /\ vna' = [setbackrange(settings) EXCEPT !.center = FR]
    /\ measuring' = FALSE
    /\ ret' = [n \in Returned |-> levels_its]
    /\ pc' = "returned"
    /\ UNCHANGED <<exc, phase, vna_entry, settings, zls, tnm, lin_span,
                   coup_span, x_min, level_min, nstep, vnaspan, levels_its,
                   x0, xublin, xliblin, initial_simplex, force_termination,
                   boundsHonoured, sim, k, iterations, ne, x, span, meas>>
    /\ UNCHANGED <<nop, rbw, helperVars, session, zaberVars>>

-----------------------------------------------------------------------------
(* The resonance detector: rs.phasegrad_VNA followed by rs.find_peaks on
   its result, as res_detect (lines 321-330) chains them.  Frequencies are
   in kHz.  An instrument call may raise an IOError; fault names the call
   that did. *)

\* RS_ZNB20.get_freqpoints: np.linspace(startfreq, stopfreq, nop)
vna_freqs(fstart, fstop, n) ==
    [j \in 1..n |-> fstart + ((j - 1) * (fstop - fstart)) \div (n - 1)]

\* round(a / b) of Python 2 for a, b > 0
Round(a, b) == (2 * a + b) \div (2 * b)

\* what phasegrad_VNA and find_peaks leave alone
DetectorFrame ==
    UNCHANGED <<pc, phase, vna_entry, settings, measuring, zls, tnm, lin_span,
                coup_span, x_min, level_min, nstep, vnaspan, levels_its, x0,
                xublin, xliblin, initial_simplex, force_termination,
                boundsHonoured, sim, k, iterations, ne, x, meas, ret,
                coldVars, probeVars, pullVars, scanVars, session, zaberVars>>

\* res_detect is called with the arguments a
res_detect(Args) ==
    /\ det_pc = "idle"
    /\ \E a \in Args : args' = a
    /\ det_pc' = "start"
    /\ UNCHANGED <<subints, interval, freqs, det_settings, fault, res_freqs,
                   exc, vna, span, nop, rbw>>
    /\ DetectorFrame

\* lines 58-59: settings = netw.setoutrange(); netw.setbackrange(settings)
phasegrad_settings ==
    /\ det_pc = "start"
    /\ \/ /\ det_settings' = vna
          /\ det_pc' = "config"
          /\ UNCHANGED <<fault, exc>>
       \/ /\ fault' = "setoutrange"
          /\ exc' = "IOError"
          /\ det_pc' = "finally"
          /\ UNCHANGED det_settings
    /\ UNCHANGED <<args, subints, interval, freqs, res_freqs, vna, span, nop, rbw>>
    /\ DetectorFrame

\* lines 61-82: the span, nop and number of sub-intervals, and the VNA set
\* to them
phasegrad_config ==
    /\ det_pc = "config"
    /\ LET sp == args.fmax - args.fmin
           n == (args.points * sp) \div args.resolution
           stitched == args.points * sp > args.max_nop * args.resolution
           si == IF stitched
                 THEN CeilDiv(args.points * sp, args.max_nop * args.resolution)
                 ELSE 1
       IN /\ subints' = si
          /\ span' = sp \div si
          /\ nop' = IF stitched THEN args.max_nop ELSE n
          /\ rbw' = args.resolution
    /\ \/ /\ vna' = [vna EXCEPT !.power = DetectPower, !.span = span',
                                 !.nop = nop', !.bw = rbw']
          /\ det_pc' = "trace"
          /\ UNCHANGED <<fault, exc>>
       \/ /\ fault' = "set"
          /\ exc' = "IOError"
          /\ det_pc' = "finally"
          /\ UNCHANGED vna
    /\ UNCHANGED <<args, interval, freqs, det_settings, res_freqs>>
    /\ DetectorFrame

\* lines 87-100: the first trace, over [fmin, fmin + span]
phasegrad_first_trace ==
    /\ det_pc = "trace"
    /\ interval = 0
    /\ vna' = [vna EXCEPT !.center = args.fmin + span \div 2]
    /\ \/ /\ freqs' = vna_freqs(args.fmin, args.fmin + span, nop)
          /\ interval' = 1
          /\ det_pc' = IF subints > 1 THEN "trace" ELSE "finally"
          /\ UNCHANGED <<fault, exc>>
       \/ /\ fault' = "trace"
          /\ exc' = "IOError"
          /\ det_pc' = "finally"
          /\ UNCHANGED <<freqs, interval>>
    /\ UNCHANGED <<args, subints, det_settings, res_freqs, span, nop, rbw>>
    /\ DetectorFrame

\* lines 102-126: the trace of a later sub-interval, over
\* [fmin + i*span, fmin + i*span + span], is appended
phasegrad_next_trace ==
    /\ det_pc = "trace"
    /\ interval >= 1
    /\ LET fstart == args.fmin + interval * span
       IN /\ vna' = [vna EXCEPT !.center = fstart + span \div 2]
          /\ \/ /\ freqs' = freqs \o vna_freqs(fstart, fstart + span, nop)
                /\ interval' = interval + 1
                /\ det_pc' = IF interval' < subints THEN "trace" ELSE "finally"
                /\ UNCHANGED <<fault, exc>>
             \/ /\ fault' = "later trace"
                /\ exc' = "IOError"
                /\ det_pc' = "finally"
                /\ UNCHANGED <<freqs, interval>>
    /\ UNCHANGED <<args, subints, det_settings, res_freqs, span, nop, rbw>>
    /\ DetectorFrame

\* lines 127-169: except Exception as E: raise E; finally: with outrange
\* netw.setbackrange(settings), superdict is filled from freqs, phases,
\* trace, grads and returned.  A name that was never assigned raises
\* UnboundLocalError in place of the error in flight; the return inside
\* finally discards the error in flight.
phasegrad_finally ==
    /\ det_pc = "finally"
    /\ IF det_settings = NoSettings
       THEN /\ exc' = "UnboundLocalError"
            /\ det_pc' = "raised"
            /\ UNCHANGED vna
       ELSE /\ vna' = setbackrange(det_settings)
            /\ IF freqs = <<>>
               THEN /\ exc' = "UnboundLocalError"
                    /\ det_pc' = "raised"
               ELSE /\ exc' = "none"
                    /\ det_pc' = "peaks"
    /\ UNCHANGED <<args, subints, interval, freqs, det_settings, fault,
                   res_freqs, span, nop, rbw>>
    /\ DetectorFrame

\* scipy.signal.find_peaks(x, distance=d, ...) is a library: it returns
\* indices of strict local maxima of x (never the first or last sample, never
\* two adjacent samples), any two at least d samples apart.  Which maxima
\* pass height and prominence depends on the measured gradient.
PeakSets(n, d) ==
    {P \in SUBSET (2..(n - 1)) :
        \A a \in P, b \in P : a < b => b - a >= Max2(d, 2)}

SortedSeq(S) ==
    CHOOSE q \in [1..Cardinality(S) -> S] :
        \A a \in 1..Cardinality(S), b \in 1..Cardinality(S) : a < b => q[a] < q[b]

\* find_peaks, line 246: dist_points = round(dist_peaks / fdelta) with
\* line 232: fdelta = (freqs[-1] - freqs[0])/(len(freqs)-1)
dist_points(fs, dist) == Round(dist * (Len(fs) - 1), fs[Len(fs)] - fs[1])

\* res_detect lines 327-330 and find_peaks lines 220-325: the peak
\* frequencies [freqs[index] for index in peaks_filt].  savgol_filter
\* raises ValueError when its window svw is longer than the data, and
\* sig.find_peaks when distance < 1; finally: return peakdict discards the
\* error and the peak list is still empty.
find_peaks ==
    /\ det_pc = "peaks"
    /\ IF args.svw > Len(freqs) \/ dist_points(freqs, args.dist_peaks) < 1
       THEN res_freqs' = <<>>
       ELSE \E P \in PeakSets(Len(freqs), dist_points(freqs, args.dist_peaks)) :
               res_freqs' = [j \in 1..Cardinality(P) |-> freqs[SortedSeq(P)[j]]]
    /\ det_pc' = "returned"
    /\ UNCHANGED <<args, subints, interval, freqs, det_settings, fault, exc,
                   vna, span, nop, rbw>>
    /\ DetectorFrame

-----------------------------------------------------------------------------
(* The coupling scanner, scan_coup.  It runs when scan_pc leaves "idle":
   called on its own, by lin_stage_fine_tune or by fine_tune_nm. *)

\* what scan_coup leaves alone
ScannerFrame ==
    UNCHANGED <<pc, phase, vna_entry, settings, zls, lin_span, coup_span,
                x_min, level_min, nstep, vnaspan, levels_its, x0, xublin,
                xliblin, initial_simplex, force_termination, boundsHonoured,
                sim, k, iterations, ne, x, span, meas, ret, nop, rbw, coldVars,
                detVars, probeVars, pullVars, session, zaberVars>>

\* scan_coup(fr, step=.., thetaspan=..) is called
scan_coup ==
    /\ scan_pc = "idle"
    /\ pc = "idle" /\ pull_pc = "idle"
    /\ \E a \in ScanArgs : thetaspan' = a[1] /\ step' = a[2]
    /\ scan_pc' = "start"
    /\ UNCHANGED <<exc, vna, measuring, tnm, scan_i, dep, current_position>>
    /\ ScannerFrame

\* lines 244-252: qt.mstart(), vna.set_span(span), set_vna(fr),
\* current_position = tnm.get_position()
scan_coup_start ==
    /\ scan_pc = "start"
    /\ measuring' = TRUE
    /\ \/ /\ vna' = set_vna([vna EXCEPT !.span = Span200], FR, SetVnaRbw)
          /\ current_position' = tnm
          /\ scan_i' = 0
          /\ scan_pc' = "sample"
          /\ exc' = exc
       \/ /\ exc' = "IOError"
          /\ scan_pc' = "raised"
          /\ UNCHANGED <<vna, current_position, scan_i>>
    /\ UNCHANGED <<tnm, dep, step, thetaspan>>
    /\ ScannerFrame

\* if dep < -25: break
ScanStops(d) == d < ScanThreshold

\* line 253: range(int(thetaspan/step) + 1), the passes of the loop.  The
\* quotient of the floats is the exact one for the arguments of ScanArgs,
\* but for the defaults: 2*np.pi / (np.pi/100) is 199.99999999999997 and
\* int() truncates it
range_len(t, s) ==
    IF t = ThetaSpan /\ s = ScanStep THEN ScanPasses ELSE t \div s + 1

\* lines 253-256: the next pass of the loop, if there is one: dep =
\* tone_depth(fr, rbw = 1e6)['depth (dB)'] and the test of the threshold.
\* cap bounds the passes of a scan of the model that do not stop it.
scan_coup_sample(Ds, cap) ==
    /\ scan_pc = "sample"
    /\ IF scan_i >= range_len(thetaspan, step)
       THEN /\ scan_pc' = "end"
            /\ UNCHANGED <<dep, exc>>
       ELSE \/ \E d \in Ds :
                 /\ ScanStops(d) \/ scan_i < cap
                 /\ dep' = d
                 /\ scan_pc' = IF ScanStops(d) THEN "end" ELSE "move"
                 /\ exc' = exc
            \/ /\ exc' = "IOError"
               /\ scan_pc' = "raised"
               /\ dep' = dep
    /\ UNCHANGED <<vna, measuring, tnm, scan_i, current_position, step, thetaspan>>
    /\ ScannerFrame

\* lines 257-259: depths.append(dep), tnm.move_relative(step), tnm.wait()
scan_coup_move ==
    /\ scan_pc = "move"
    /\ \/ /\ tnm' = tnm + step
          /\ scan_i' = scan_i + 1
          /\ scan_pc' = "sample"
          /\ exc' = exc
       \/ /\ exc' = "IOError"
          /\ scan_pc' = "raised"
          /\ UNCHANGED <<tnm, scan_i>>
    /\ UNCHANGED <<vna, measuring, dep, current_position, step, thetaspan>>
    /\ ScannerFrame

\* line 260: qt.mend()
scan_coup_end ==
    /\ scan_pc = "end"
    /\ measuring' = FALSE
    /\ scan_pc' = "done"
    /\ UNCHANGED <<exc, vna, tnm, scan_i, dep, current_position, step, thetaspan>>
    /\ ScannerFrame

-----------------------------------------------------------------------------
(* The linear coarse-puller, lin_stage_fine_tune.  It runs when pull_pc
   leaves "idle": called on its own or by fine_tune_nm.  Its detections are
   res_detect calls: what they return is measured, and the error that leaves
   one is an UnboundLocalError. *)

\* what lin_stage_fine_tune leaves alone
PullerFrame ==
    UNCHANGED <<pc, phase, vna_entry, settings, lin_span, coup_span, x_min,
                level_min, nstep, vnaspan, levels_its, x0, xublin, xliblin,
                initial_simplex, force_termination, boundsHonoured, sim, k,
                iterations, ne, x, ret, coldVars, detVars, probeVars, session,
                zaberVars>>

\* lin_stage_fine_tune(fr) is called
lin_stage_fine_tune ==
    /\ pull_pc = "idle"
    /\ pc = "idle" /\ scan_pc = "idle"
    /\ pull_pc' = "start"
    /\ UNCHANGED <<exc, vna, measuring, zls, tnm, span, nop, rbw, meas, sets,
                   sel_res, delf, m, tunes, scanVars>>
    /\ PullerFrame

\* lines 202-203: sets = netw.setoutrange(); scan_coup(fr) is called
lin_stage_start ==
    /\ pull_pc = "start"
    /\ \/ /\ sets' = vna
          /\ vna' = setoutrange(vna)
          /\ scan_pc' = "start"
          /\ pull_pc' = "scan"
          /\ exc' = exc
       \/ /\ exc' = "IOError"
          /\ pull_pc' = "raised"
          /\ UNCHANGED <<sets, vna, scan_pc>>
    /\ UNCHANGED <<measuring, zls, tnm, span, nop, rbw, meas, sel_res, delf, m,
                   tunes, scan_i, dep, current_position, step, thetaspan>>
    /\ PullerFrame

\* line 203: scan_coup returned, or the error it raised goes on to the caller
lin_stage_scanned ==
    /\ pull_pc = "scan"
    /\ scan_pc \in {"done", "raised"}
    /\ pull_pc' = IF scan_pc = "done" THEN "detect" ELSE "raised"
    /\ scan_pc' = "idle"
    /\ UNCHANGED <<exc, vna, measuring, zls, tnm, span, nop, rbw, meas, sets,
                   sel_res, delf, m, tunes, scan_i, dep, current_position, step,
                   thetaspan>>
    /\ PullerFrame

\* lines 204-213: the resonances in [fr - span/2, fr + span/2] are detected
\* and probed (ms is what the probes report), the one of least depth is
\* selected, delf = fr - sel_res, m = 0.  np.argmin of no depth raises
\* ValueError.
lin_stage_select(Ms) ==
    /\ pull_pc = "detect"
    /\ span' = phasegrad_span(FR - PullSpan \div 2, FR + PullSpan \div 2, CostRbw)
    /\ nop' = phasegrad_nop(FR - PullSpan \div 2, FR + PullSpan \div 2, CostRbw)
    /\ rbw' = CostRbw
    /\ \/ \E ms \in Ms :
            /\ meas' = ms
            /\ IF ms = <<>>
               THEN /\ exc' = "ValueError"
                    /\ pull_pc' = "raised"
                    /\ UNCHANGED <<sel_res, delf, m>>
               ELSE /\ sel_res' = ms[ArgMin([j \in 1..Len(ms) |-> ms[j].depth])].Frequency
                    /\ delf' = FR - sel_res'
                    /\ m' = 0
                    /\ pull_pc' = "loop"
                    /\ exc' = exc
       \/ /\ exc' = "UnboundLocalError"
          /\ pull_pc' = "raised"
          /\ UNCHANGED <<meas, sel_res, delf, m>>
    /\ UNCHANGED <<vna, measuring, zls, tnm, sets, tunes, scanVars>>
    /\ PullerFrame

\* while abs(delf) > 1e6
PullContinues_always(d) == TRUE
PullContinues(d) == Abs(d) > PullThreshold

\* move_adapt(delf): the signed length increment, in microsteps, for a
\* frequency difference: proportional to it, and towards a longer cavity
\* when the resonance is above the target
AdaptUnit == 1000
move_adapt(d) == -TruncDiv(d, AdaptUnit)

\* lines 216-219: the test of the loop; in the loop set_vna(sel_res),
\* vna.set_span(30e6), sleep(0.3), move_adapt(delf)
lin_stage_loop ==
    /\ pull_pc = "loop"
    /\ IF PullContinues(delf)
       THEN \/ /\ vna' = [set_vna(vna, sel_res, SetVnaRbw) EXCEPT !.span = PullHalfWindow]
               /\ zls' = zls + move_adapt(delf)
               /\ pull_pc' = "redetect"
               /\ exc' = exc
            \/ /\ exc' = "IOError"
               /\ pull_pc' = "raised"
               /\ UNCHANGED <<vna, zls>>
       ELSE /\ pull_pc' = "restore"
            /\ UNCHANGED <<vna, zls, exc>>
    /\ UNCHANGED <<measuring, tnm, span, nop, rbw, meas, sets, sel_res, delf, m,
                   tunes, scanVars>>
    /\ PullerFrame

\* lines 220-229: sel_res = res_detect(sel_res - 30e6, sel_res+30e6,
\* rbw=1e5) returns the list fs; m += 1; past the cap the loop is left; with
\* no resonance tune_linstage is called; else sel_res = sel_res[0] and delf
\* = fr - sel_res.  cap bounds the passes of a call of the model.
\* line 228: sel_res = sel_res[0], and the last of the list in its place
sel_res_last(fs) == fs[Len(fs)]
sel_res_first(fs) == fs[1]

lin_stage_redetect(Ls, cap) ==
    /\ pull_pc = "redetect"
    /\ span' = phasegrad_span(sel_res - PullHalfWindow, sel_res + PullHalfWindow, PullRbw)
    /\ nop' = phasegrad_nop(sel_res - PullHalfWindow, sel_res + PullHalfWindow, PullRbw)
    /\ rbw' = PullRbw
    /\ \/ \E fs \in Ls :
            /\ m' = m + 1
            /\ exc' = exc
            /\ IF m' > PullCap
               THEN /\ pull_pc' = "restore"
                    /\ UNCHANGED <<sel_res, delf>>
               ELSE IF Len(fs) = 0
               THEN /\ pull_pc' = "tuning"
                    /\ UNCHANGED <<sel_res, delf>>
               ELSE /\ m' < cap \/ ~PullContinues(FR - sel_res_first(fs))
                    /\ sel_res' = sel_res_first(fs)
                    /\ delf' = FR - sel_res'
                    /\ pull_pc' = "loop"
       \/ /\ exc' = "UnboundLocalError"
          /\ pull_pc' = "raised"
          /\ UNCHANGED <<sel_res, delf, m>>
    /\ UNCHANGED <<vna, measuring, zls, tnm, meas, sets, tunes, scanVars>>
    /\ PullerFrame

\* lines 224-226: tune_linstage(fr, thresh=1e6), the broader re-tune of the
\* linear stage; break
tune_linstage(Ds) ==
    /\ pull_pc = "tuning"
    /\ tunes' = tunes + 1
    /\ \/ /\ \E d \in Ds : zls' = zls + d
          /\ pull_pc' = "restore"
          /\ exc' = exc
       \/ /\ exc' = "IOError"
          /\ pull_pc' = "raised"
          /\ zls' = zls
    /\ UNCHANGED <<vna, measuring, tnm, span, nop, rbw, meas, sets, sel_res,
                   delf, m, scanVars>>
    /\ PullerFrame

\* lin_stage_fine_tune without line 232: it returns with the VNA where its
\* loop left it
lin_stage_return_unrestored ==
    /\ pull_pc = "restore"
    /\ pull_pc' = "done"
    /\ UNCHANGED <<exc, vna, measuring, zls, tnm, span, nop, rbw, meas, sets,
                   sel_res, delf, m, tunes, scanVars>>
    /\ PullerFrame

\* lines 232-233: netw.setbackrange(sets); return resonances, depths
lin_stage_return ==
    /\ pull_pc = "restore"
    /\ vna' = setbackrange(sets)
    /\ pull_pc' = "done"
    /\ UNCHANGED <<exc, measuring, zls, tnm, span, nop, rbw, meas, sets,
                   sel_res, delf, m, tunes, scanVars>>
    /\ PullerFrame

-----------------------------------------------------------------------------
(* The mode lookup, position_lookup *)

\* list(lst).index(v): the first index of v in q
Index(q, v) == CHOOSE j \in 1..Len(q) : q[j] = v /\ \A i \in 1..(j - 1) : q[i] # v

\* line 179: idx = [list(lst).index(x) for x in lst if np.abs(x - fr) < 0.01]
\* on the frequency column lst
lookup_idx(lst, fr) ==
    LET near == SelectSeq(lst, LAMBDA v : Abs(v - fr) < LookupTol)
    IN [j \in 1..Len(near) |-> Index(lst, near[j])]

\* lines 188-189: positions = sorted(list(lookup['Position (mm)'][idx]))
lookup_positions(t, fr) ==
    LET idx == lookup_idx([j \in 1..Len(t) |-> t[j][1]], fr)
    IN SortSeq([j \in 1..Len(idx) |-> t[idx[j]][2]], LAMBDA a, b : a < b)

\* lines 191-194: poses = positions[:1]; each later position is appended
\* if it is at least 1.8 mm above the last one retained
RECURSIVE lookup_retain(_, _)
lookup_retain(kept, rest) ==
    IF rest = <<>> THEN kept
    ELSE IF rest[1] >= kept[Len(kept)] + MinSpacing
         THEN lookup_retain(Append(kept, rest[1]), Tail(rest))
         ELSE lookup_retain(kept, Tail(rest))

\* position_lookup(fr) when lookuptble.csv holds the rows of t.  With no
\* row near fr the warning is printed and [] returned (lines 183-186).
position_lookup_of(t) ==
    /\ lookup' = t
    /\ positions' = lookup_positions(t, FR)
    /\ poses' = IF positions' = <<>> THEN <<>>
                ELSE lookup_retain(<<positions'[1]>>, Tail(positions'))

\* position_lookup called on its own
position_lookup(Ts) ==
    /\ lookup = <<>>
    /\ \E t \in Ts : position_lookup_of(t)
    /\ UNCHANGED <<pc, exc, phase, vna, vna_entry, settings, measuring, zls, tnm,
                   lin_span, coup_span, x_min, level_min, nstep, vnaspan,
                   levels_its, x0, xublin, xliblin, initial_simplex,
                   force_termination, boundsHonoured, sim, k, iterations, ne,
                   x, span, meas, ret, nop, rbw, small_change, scan_coupling,
                   detVars, probeVars, pullVars, scanVars, session, zaberVars>>

-----------------------------------------------------------------------------
(* The depth probe, tone_depth_lin *)

\* lines 273-283: the tone built from the trace (fs, amps) acquired around
\* centerfreq
tone_of(fs, amps, centerfreq) ==
    LET idx == ArgMin([j \in 1..Len(fs) |-> Abs(fs[j] - centerfreq)])
    IN [depth |-> amps[idx], Frequency |-> fs[ArgMin(amps)], trace |-> <<fs, amps>>]

\* tone_depth_lin(centerfreq): the VNA is parked, set to a span of 0.1 MHz
\* around centerfreq with set_vna, the trace is acquired, the VNA is put back
\* and the tone returned.  The acquisition may raise, and then the VNA stays
\* on the probe's window.
tone_depth_lin(Cs, As) ==
    /\ exc = "none"
    /\ \E centerfreq \in Cs :
         LET v == tone_depth_lin_vna(vna, centerfreq)
             fs == vna_freqs(centerfreq - v.span \div 2, centerfreq + v.span \div 2, v.nop)
         IN \/ \E amps \in [1..v.nop -> As] :
                 /\ tone' = tone_of(fs, amps, centerfreq)
                 /\ vna' = setbackrange(vna)
                 /\ exc' = exc
            \/ /\ vna' = v
               /\ exc' = "IOError"
               /\ tone' = tone
    /\ UNCHANGED <<pc, phase, vna_entry, settings, measuring, zls, tnm, lin_span,
                   coup_span, x_min, level_min, nstep, vnaspan, levels_its, x0,
                   xublin, xliblin, initial_simplex, force_termination,
                   boundsHonoured, sim, k, iterations, ne, x, span, meas, ret,
                   nop, rbw, coldVars, detVars, pullVars, scanVars, session,
                   zaberVars>>

-----------------------------------------------------------------------------
(* The cold start and the coupling seed of fine_tune_nm, lines 94-110 *)

\* what they leave alone
SetupFrame ==
    UNCHANGED <<phase, vna, vna_entry, settings, measuring, tnm, lin_span,
                coup_span, x_min, level_min, nstep, vnaspan, levels_its, x0,
                xublin, xliblin, initial_simplex, force_termination,
                boundsHonoured, sim, k, iterations, ne, x, span, meas, ret,
                nop, rbw, small_change, scan_coupling, detVars, probeVars,
                sets, sel_res, delf, m, tunes, scan_i, dep, current_position,
                step, thetaspan, session, zaberVars>>

\* lines 94-100 with small_change=False: poses = np.flip(position_lookup(fr)),
\* zls.move_abs_mm(poses[0]), and lin_stage_fine_tune(fr) is called.  poses
\* of the model is the list position_lookup returned, so poses[0] of line
\* 97 is its last element; of an empty list it raises IndexError.
\* lines 96-97: np.flip(position_lookup(fr))[0] of the list q, and the same
\* without np.flip
first_unflipped(q) == q[1]
first_flipped(q) == q[Len(q)]

fine_tune_nm_lookup(Ts) ==
    /\ pc = "setup"
    /\ ~small_change
    /\ \E t \in Ts : position_lookup_of(t)
    /\ IF poses' = <<>>
       THEN /\ exc' = "IndexError"
            /\ pc' = "raised"
            /\ UNCHANGED <<zls, pull_pc>>
       ELSE \/ /\ zls' = move_abs_mm_lookup(first_flipped(poses'))
               /\ pull_pc' = "start"
               /\ pc' = "cold_pull"
               /\ exc' = exc
            \/ /\ exc' = "IOError"
               /\ pc' = "raised"
               /\ UNCHANGED <<zls, pull_pc>>
    /\ scan_pc' = scan_pc
    /\ SetupFrame

\* lines 100-101: lin_stage_fine_tune returned, or the error it raised
\* leaves fine_tune_nm
fine_tune_nm_pulled ==
    /\ pc = "cold_pull"
    /\ pull_pc \in {"done", "raised"}
    /\ pc' = IF pull_pc = "done" THEN "coupling" ELSE "raised"
    /\ pull_pc' = "idle"
    /\ UNCHANGED <<exc, zls, lookup, positions, poses, scan_pc>>
    /\ SetupFrame

\* lines 105-107 with scan_coupling=True: scan_coup(fr) is called
fine_tune_nm_scan ==
    /\ scan_coupling
    /\ \/ pc = "setup" /\ small_change
       \/ pc = "coupling"
    /\ scan_pc' = "start"
    /\ pc' = "scan"
    /\ UNCHANGED <<exc, zls, lookup, positions, poses, pull_pc>>
    /\ SetupFrame

\* lines 107-108: scan_coup returned, or the error it raised leaves
\* fine_tune_nm
fine_tune_nm_scanned ==
    /\ pc = "scan"
    /\ scan_pc \in {"done", "raised"}
    /\ pc' = IF scan_pc = "done" THEN "ini" ELSE "raised"
    /\ scan_pc' = "idle"
    /\ UNCHANGED <<exc, zls, lookup, positions, poses, pull_pc>>
    /\ SetupFrame

-----------------------------------------------------------------------------
(* zaber.serial: AsciiReply.  A string is a sequence of one-character
   strings; None of a string attribute is the empty sequence and None of
   message_id is -1. *)

\* the characters of ASCII from 32 to 126, in order (the quote, the
\* backslash and the backtick by name)
Ascii == << " ", "!", "quote", "#", "$", "%", "&", "'", "(", ")", "*", "+",
           ",", "-", ".", "/", "0", "1", "2", "3", "4", "5", "6", "7",
           "8", "9", ":", ";", "<", "=", ">", "?", "@", "A", "B", "C",
           "D", "E", "F", "G", "H", "I", "J", "K", "L", "M", "N", "O",
           "P", "Q", "R", "S", "T", "U", "V", "W", "X", "Y", "Z", "[",
           "backslash", "]", "^", "_", "backtick", "a", "b", "c", "d", "e", "f", "g",
           "h", "i", "j", "k", "l", "m", "n", "o", "p", "q", "r", "s",
           "t", "u", "v", "w", "x", "y", "z", "{", "|", "}", "~" >>

\* ord(ch)
ord(c) == IF c = "\n" THEN 10
          ELSE IF c = "\r" THEN 13
          ELSE IF c = "\t" THEN 9
          ELSE 31 + (CHOOSE i \in 1..Len(Ascii) : Ascii[i] = c)

\* the classes \d and \s of the module re
IsDigit(c) == c \in {"0", "1", "2", "3", "4", "5", "6", "7", "8", "9"}
IsSpace(c) == c \in {" ", "\t", "\n", "\r"}

\* s.strip("\r\n")
RECURSIVE lstrip(_)
lstrip(s) == IF s # <<>> /\ s[1] \in {"\r", "\n"} THEN lstrip(Tail(s)) ELSE s
RECURSIVE rstrip(_)
rstrip(s) == IF s # <<>> /\ s[Len(s)] \in {"\r", "\n"}
             THEN rstrip(SubSeq(s, 1, Len(s) - 1)) ELSE s
strip(s) == rstrip(lstrip(s))

\* int(s) of a string of digits
RECURSIVE int(_)
int(s) == IF s = <<>> THEN 0 ELSE 10 * int(SubSeq(s, 1, Len(s) - 1)) + (ord(s[Len(s)]) - 48)

\* "{:d}".format(n) and "{:02d}".format(n), n >= 0
RECURSIVE format_d(_)
format_d(n) == IF n < 10 THEN <<Ascii[17 + n]>> ELSE format_d(n \div 10) \o <<Ascii[17 + (n % 10)]>>
format_02d_unpadded(n) == format_d(n)
format_02d(n) == IF n < 10 THEN <<"0">> \o format_d(n) ELSE format_d(n)

\* "{:02X}".format(n), 0 <= n < 4096
HexDigits == <<"0", "1", "2", "3", "4", "5", "6", "7", "8", "9", "A", "B", "C", "D", "E", "F">>
format_02X(n) ==
    IF n < 256 THEN <<HexDigits[(n \div 16) + 1], HexDigits[(n % 16) + 1]>>
    ELSE <<HexDigits[(n \div 256) + 1], HexDigits[((n \div 16) % 16) + 1], HexDigits[(n % 16) + 1]>>

\* lines 70-75: the sum of the character codes of s
RECURSIVE SumOrd(_)
SumOrd(s) == IF s = <<>> THEN 0 ELSE ord(s[1]) + SumOrd(Tail(s))

\* line 78: correct_checksum of the reply without its checksum, body:
\* "{:02X}".format(((sum & 0xFF) ^ 0xFF) + 1)[-2:] with the sum taken after
\* the message type; v ^ 0xFF of a byte v is 255 - v
correct_checksum_untruncated(body) ==
    format_02X((255 - (SumOrd(Tail(body)) % 256)) + 1)
correct_checksum(body) ==
    LET h == format_02X((255 - (SumOrd(Tail(body)) % 256)) + 1)
    IN SubSeq(h, Len(h) - 1, Len(h))

\* the end of the longest match of \d+ and of \S+ in s from position i:
\* the position after it (i itself when there is no match)
RECURSIVE DigitsEnd(_, _)
DigitsEnd(s, i) == IF i <= Len(s) /\ IsDigit(s[i]) THEN DigitsEnd(s, i + 1) ELSE i
RECURSIVE TokenEnd(_, _)
TokenEnd(s, i) == IF i <= Len(s) /\ ~IsSpace(s[i]) THEN TokenEnd(s, i + 1) ELSE i

\* s[i] exists and matches \s
SpaceAt(s, i) == i <= Len(s) /\ IsSpace(s[i])

\* the head the three patterns share, <type>(\d+)\s(\d+)\s: the two
\* numbers and the position after it
match_head(s) ==
    LET a == DigitsEnd(s, 2)
        b == DigitsEnd(s, a + 1)
    IN [ok |-> a > 2 /\ SpaceAt(s, a) /\ b > a + 1 /\ SpaceAt(s, b),
        device_address |-> int(SubSeq(s, 2, a - 1)),
        axis_number |-> int(SubSeq(s, a + 1, b - 1)),
        next |-> b + 1]

\* the optional group (?:(\d+)\s)? at position i
match_id(s, i) ==
    LET d == DigitsEnd(s, i)
    IN [ok |-> d > i /\ SpaceAt(s, d),
        message_id |-> int(SubSeq(s, i, d - 1)),
        next |-> d + 1]

\* line 100, the end of the pattern of a reply, (\S+)\s(\S+)\s(\S+)\s(.+),
\* at position i
match_reply(s, i) ==
    LET f == TokenEnd(s, i)
        t == TokenEnd(s, f + 1)
        w == TokenEnd(s, t + 1)
    IN [ok |-> f > i /\ SpaceAt(s, f) /\ t > f + 1 /\ SpaceAt(s, t)
               /\ w > t + 1 /\ SpaceAt(s, w) /\ w + 1 <= Len(s),
        reply_flag |-> SubSeq(s, i, f - 1),
        device_status |-> SubSeq(s, f + 1, t - 1),
        warning_flag |-> SubSeq(s, t + 1, w - 1),
        data |-> SubSeq(s, w + 1, Len(s))]

\* line 129, the end of the pattern of an alert, (\S+)\s(\S+)(?:\s(.*))?
match_alert(s, i) ==
    LET t == TokenEnd(s, i)
        w == TokenEnd(s, t + 1)
    IN [ok |-> t > i /\ SpaceAt(s, t) /\ w > t + 1,
        device_status |-> SubSeq(s, i, t - 1),
        warning_flag |-> SubSeq(s, t + 1, w - 1),
        data |-> IF SpaceAt(s, w) THEN SubSeq(s, w + 1, Len(s)) ELSE <<>>]

ValueError == [NoReply EXCEPT !.error = "ValueError"]

\* lines 88-140: the attributes set from the reply without its checksum,
\* body, whose checksum attribute is c.  The optional message id of a reply
\* is tried first and given up when the rest does not match with it.
set_attributes(body, c) ==
    LET h == match_head(body)
        i == match_id(body, h.next)
        base == [NoReply EXCEPT !.checksum = c, !.message_type = body[1],
                                !.device_address = h.device_address,
                                !.axis_number = h.axis_number]
        reply(r, id) == [base EXCEPT !.message_id = id, !.reply_flag = r.reply_flag,
                                     !.device_status = r.device_status,
                                     !.warning_flag = r.warning_flag, !.data = r.data]
    IN CASE body[1] = "@" ->
              IF h.ok /\ i.ok /\ match_reply(body, i.next).ok
              THEN reply(match_reply(body, i.next), i.message_id)
              ELSE IF h.ok /\ match_reply(body, h.next).ok
              THEN reply(match_reply(body, h.next), -1)
              ELSE ValueError
         [] body[1] = "#" ->
              IF ~h.ok THEN ValueError
              ELSE IF i.ok
              THEN [base EXCEPT !.message_id = i.message_id,
                                !.data = SubSeq(body, i.next, Len(body))]
              ELSE [base EXCEPT !.data = SubSeq(body, h.next, Len(body))]
         [] body[1] = "!" ->
              LET r == match_alert(body, h.next)
              IN IF h.ok /\ r.ok
                 THEN [base EXCEPT !.device_status = r.device_status,
                                   !.warning_flag = r.warning_flag, !.data = r.data]
                 ELSE ValueError
         [] OTHER -> ValueError

\* AsciiReply.__init__(reply_string), lines 59-140
AsciiReply(rs) ==
    LET stripped == strip(rs)
        n == Len(stripped)
    IN IF n < 5 THEN ValueError
       ELSE IF stripped[n - 2] = ":"
       THEN LET body == SubSeq(stripped, 1, n - 3)
                c == SubSeq(stripped, n - 1, n)
            IN IF c # correct_checksum(body) THEN ValueError
               ELSE set_attributes(body, c)
       ELSE set_attributes(stripped, <<>>)

\* AsciiReply.encode(), lines 154-205
encode(r) ==
    LET sp == <<" ">>
        head == <<r.message_type>> \o format_02d(r.device_address) \o sp
                    \o format_d(r.axis_number)
                    \o (IF r.message_id = -1 THEN <<>> ELSE sp \o format_02d(r.message_id))
        str == CASE r.message_type = "@" ->
                      head \o sp \o r.reply_flag \o sp \o r.device_status \o sp
                           \o r.warning_flag \o sp \o r.data
                 [] r.message_type = "#" -> head \o sp \o r.data
                 [] r.message_type = "!" ->
                      head \o sp \o r.device_status \o sp \o r.warning_flag
                 [] OTHER -> <<>>
    IN IF r.checksum # <<>> THEN str \o <<":">> \o r.checksum \o <<"\r", "\n">>
       ELSE str \o <<"\r", "\n">>

\* what the parser leaves alone
ParserFrame ==
    UNCHANGED <<pc, exc, phase, vna, vna_entry, settings, measuring, zls, tnm,
                lin_span, coup_span, x_min, level_min, nstep, vnaspan,
                levels_its, x0, xublin, xliblin, initial_simplex,
                force_termination, boundsHonoured, sim, k, iterations, ne, x,
                span, meas, ret, nop, rbw, helperVars, session, binaryVars,
                deviceVars>>

\* the line rs is read from the port and parsed
AsciiReply_init(rs) ==
    /\ reply_string = <<>>
    /\ reply_string' = rs
    /\ areply' = AsciiReply(rs)
    /\ retstr' = retstr
    /\ ParserFrame

\* the reply parsed is encoded
AsciiReply_encode ==
    /\ areply.error = "none"
    /\ areply.message_type # ""
    /\ retstr = <<>>
    /\ retstr' = encode(areply)
    /\ UNCHANGED <<reply_string, areply>>
    /\ ParserFrame

-----------------------------------------------------------------------------
(* zaber.serial: BinaryCommand and BinaryReply.  A frame is a sequence of
   six bytes, each in 0..255; the message id None is -1. *)

\* struct.pack("<l", data): the four bytes of the two's complement of
\* data, least significant first
pack_l(data) ==
    <<data % 256, (data \div 256) % 256, (data \div 65536) % 256, (data \div (2^24)) % 256>>

\* struct.unpack("<l", b): the signed value of four bytes
unpack_l(b) ==
    b[1] + 256 * b[2] + 65536 * b[3] + (2^24) * (IF b[4] >= 128 THEN b[4] - 256 ELSE b[4])

\* BinaryCommand.encode, binarycommand.py lines 60-73: the message id, when
\* there is one, replaces the last byte
BinaryCommand_encode(c) ==
    LET p == <<c.device_number, c.command_number>> \o pack_l(c.data)
    IN IF c.message_id # -1 THEN SubSeq(p, 1, 5) \o <<c.message_id>> ELSE p

\* binaryreply.py lines 49-53 without the branch: the 24 bits as they are
sign_extend_none(d) == d

\* binaryreply.py lines 49-53: data with bit 23 set is
\* (data | 0xFF000000) - (1 << 32), that is data - 2^24
sign_extend(d) == IF d >= 2^23 THEN d - 2^24 ELSE d

\* BinaryReply.__init__(reply, message_id), binaryreply.py lines 21-55, for
\* a byte string: (data & 0xFF000000) >> 24 is the top byte of the two's
\* complement, data & 0x00FFFFFF the other three
BinaryReply(reply, message_id) ==
    LET data == unpack_l(SubSeq(reply, 3, 6))
    IN IF message_id
       THEN [device_number |-> reply[1], command_number |-> reply[2],
             data |-> sign_extend(data % (2^24)),
             message_id |-> (data \div (2^24)) % 256]
       ELSE [device_number |-> reply[1], command_number |-> reply[2],
             data |-> data, message_id |-> -1]

\* what the binary messages leave alone
BinaryFrame ==
    UNCHANGED <<pc, exc, phase, vna, vna_entry, settings, measuring, zls, tnm,
                lin_span, coup_span, x_min, level_min, nstep, vnaspan,
                levels_its, x0, xublin, xliblin, initial_simplex,
                force_termination, boundsHonoured, sim, k, iterations, ne, x,
                span, meas, ret, nop, rbw, helperVars, session, parserVars,
                deviceVars>>

\* BinaryCommand(device_number, command_number, data, message_id),
\* binarycommand.py lines 30-57: negative numbers and message ids outside
\* 0..255 raise ValueError
BinaryCommand_init(device_number, command_number, data, message_id) ==
    /\ bcommand = NoMessage /\ packed = <<>>
    /\ device_number >= 0 /\ command_number >= 0
    /\ message_id = -1 \/ (message_id >= 0 /\ message_id <= 255)
    /\ bcommand' = [device_number |-> device_number, command_number |-> command_number,
                    data |-> data, message_id |-> message_id]
    /\ UNCHANGED <<packed, breply>>
    /\ BinaryFrame

\* the command is encoded
BinaryCommand_encoded ==
    /\ bcommand # NoMessage /\ packed = <<>>
    /\ packed' = BinaryCommand_encode(bcommand)
    /\ UNCHANGED <<bcommand, breply>>
    /\ BinaryFrame

\* the bytes are decoded, with message ids enabled or not
BinaryReply_init(message_id) ==
    /\ packed # <<>> /\ breply = NoMessage
    /\ breply' = BinaryReply(packed, message_id)
    /\ UNCHANGED <<bcommand, packed>>
    /\ BinaryFrame

\* the numbers of the frames: the ends and the middle of a byte, and data
\* at the ends of 24 and of 32 bits
ByteEnds == {0, 1, 127, 128, 255}
DataEnds ==
    {-2147483647 - 1, -(2^23) - 1, -(2^23), -12345, -1, 0, 1, 12345,
     2^23 - 1, 2^23, 2147483647}

-----------------------------------------------------------------------------
(* zaber.serial: AsciiDevice and AsciiSerial.  Threads call methods of
   their devices, which share one port.  A command on the wire carries the
   thread that wrote it, and a reply line the thread whose command it
   answers; the code sees neither. *)

\* RLock: acquired by a thread when it is free or its own, released once
\* per acquisition
acquire(l, t) == [owner |-> t, depth |-> l.depth + 1]
release(l, t) ==
    IF l.owner # t THEN l
    ELSE IF l.depth > 1 THEN [owner |-> t, depth |-> l.depth - 1] ELSE Unlocked

\* send without "with self.port.lock"
send_acquire_none(l, t) == l

\* asciidevice.py line 92: with self.port.lock
send_acquire(l, t) == acquire(l, t)

\* the condition of asciidevice.py lines 98-100 without the axis number
unexpected_but_axis(r, msg, address) ==
    r.device_address # address \/ r.message_id # msg.message_id

\* asciidevice.py lines 98-100: the reply is not the one expected
unexpected(r, msg, address) ==
    \/ r.device_address # address
    \/ r.axis_number # msg.axis_number
    \/ r.message_id # msg.message_id

\* a poll loop that breaks on any reply
idle_or_busy(r) == TRUE

\* a poll loop that never sees IDLE
idle_never(r) == FALSE

\* asciidevice.py line 128: reply.device_status == "IDLE"
idle(r) == r.device_status = "IDLE"

\* "move abs {0:d}".format(position)
move_abs_data(position) == <<"m", "o", "v", "e", " ", "a", "b", "s", " ">> \o format_d(position)

\* what the devices leave alone
DeviceFrame ==
    UNCHANGED <<pc, exc, phase, vna, vna_entry, settings, measuring, zls, tnm,
                lin_span, coup_span, x_min, level_min, nstep, vnaspan,
                levels_its, x0, xublin, xliblin, initial_simplex,
                force_termination, boundsHonoured, sim, k, iterations, ne, x,
                span, meas, ret, nop, rbw, helperVars, session, parserVars,
                binaryVars>>

\* AsciiDevice.move_abs(position, blocking), asciidevice.py line 165: the
\* command is made from a string, so it names device 0, axis 0 and no
\* message id (asciicommand.py lines 121-126)
move_abs(t, position, blocking) ==
    /\ tpc[t] = "idle"
    /\ op' = [op EXCEPT ![t] = [kind |-> "move_abs", blocking |-> blocking]]
    /\ message' = [message EXCEPT ![t] =
                     [device_address |-> 0, axis_number |-> 0, message_id |-> -1,
                      data |-> move_abs_data(position)]]
    /\ tpc' = [tpc EXCEPT ![t] = "send"]
    /\ UNCHANGED <<send_reply, result, polled, raised, lock, wire_out, wire_in,
                   moving, last_port_op>>
    /\ DeviceFrame

\* AsciiDevice.send(message) called with an AsciiCommand
send(t, msg) ==
    /\ tpc[t] = "idle"
    /\ op' = [op EXCEPT ![t] = [kind |-> "send", blocking |-> FALSE]]
    /\ message' = [message EXCEPT ![t] = msg]
    /\ tpc' = [tpc EXCEPT ![t] = "send"]
    /\ UNCHANGED <<send_reply, result, polled, raised, lock, wire_out, wire_in,
                   moving, last_port_op>>
    /\ DeviceFrame

\* asciidevice.py lines 90-92: the message is addressed to this device and
\* the lock of the port is taken
send_enter(t) ==
    /\ tpc[t] = "send"
    /\ lock.owner \in {0, t}
    /\ message' = [message EXCEPT ![t].device_address = Address(t)]
    /\ lock' = send_acquire(lock, t)
    /\ tpc' = [tpc EXCEPT ![t] = "write"]
    /\ UNCHANGED <<op, send_reply, result, polled, raised, wire_out, wire_in,
                   moving, last_port_op>>
    /\ DeviceFrame

\* AsciiSerial.write, asciiserial.py lines 98-99: the command is written
\* under the lock
write(t) ==
    /\ tpc[t] = "write"
    /\ lock.owner \in {0, t}
    /\ wire_out' = Append(wire_out,
                          [device_address |-> message[t].device_address,
                           axis_number |-> message[t].axis_number,
                           message_id |-> message[t].message_id,
                           data |-> message[t].data, thread |-> t])
    /\ last_port_op' = <<t, "write">>
    /\ tpc' = [tpc EXCEPT ![t] = "read"]
    /\ UNCHANGED <<op, message, send_reply, result, polled, raised, lock, wire_in,
                   moving>>
    /\ DeviceFrame

\* AsciiSerial.read, asciiserial.py lines 114-115: the lock is taken and
\* readline waits for a line
read(t) ==
    /\ tpc[t] = "read"
    /\ lock.owner \in {0, t}
    /\ lock' = acquire(lock, t)
    /\ tpc' = [tpc EXCEPT ![t] = "readline"]
    /\ UNCHANGED <<op, message, send_reply, result, polled, raised, wire_out,
                   wire_in, moving, last_port_op>>
    /\ DeviceFrame

\* asciiserial.py lines 115-123: a line has come and is parsed
readline(t) ==
    /\ tpc[t] = "readline"
    /\ wire_in # <<>>
    /\ send_reply' = [send_reply EXCEPT ![t] = Head(wire_in)]
    /\ wire_in' = Tail(wire_in)
    /\ lock' = release(lock, t)
    /\ last_port_op' = <<t, "read">>
    /\ tpc' = [tpc EXCEPT ![t] = "check"]
    /\ UNCHANGED <<op, message, result, polled, raised, wire_out, moving>>
    /\ DeviceFrame

\* asciiserial.py lines 117-119: no line has come within the timeout, which
\* happens when the device has not answered the command; TimeoutError
\* leaves send through its with statement
readline_timeout(t) ==
    /\ tpc[t] = "readline"
    /\ wire_in = <<>> /\ wire_out = <<>>
    /\ lock' = release(release(lock, t), t)
    /\ last_port_op' = <<t, "read">>
    /\ raised' = [raised EXCEPT ![t] = [error |-> "TimeoutError", reply |-> NoLine]]
    /\ tpc' = [tpc EXCEPT ![t] = "raised"]
    /\ UNCHANGED <<op, message, send_reply, result, polled, wire_out, wire_in,
                   moving>>
    /\ DeviceFrame

\* asciidevice.py lines 96-105: the lock is released, and a reply that is
\* not the one expected raises UnexpectedReplyError with the reply
send_raises(t) ==
    /\ tpc[t] = "check"
    /\ unexpected(send_reply[t], message[t], Address(t))
    /\ lock' = release(lock, t)
    /\ raised' = [raised EXCEPT ![t] =
                    [error |-> "UnexpectedReplyError", reply |-> send_reply[t]]]
    /\ tpc' = [tpc EXCEPT ![t] = "raised"]
    /\ UNCHANGED <<op, message, send_reply, result, polled, wire_out, wire_in,
                   moving, last_port_op>>
    /\ DeviceFrame

\* asciidevice.py line 106: send returns the reply to its caller
send_returns(t) ==
    /\ tpc[t] = "check" /\ op[t].kind = "send"
    /\ ~unexpected(send_reply[t], message[t], Address(t))
    /\ lock' = release(lock, t)
    /\ result' = [result EXCEPT ![t] = send_reply[t]]
    /\ tpc' = [tpc EXCEPT ![t] = "returned"]
    /\ UNCHANGED <<op, message, send_reply, polled, raised, wire_out, wire_in,
                   moving, last_port_op>>
    /\ DeviceFrame

\* asciidevice.py lines 165-168: send has returned the reply to the move
\* command; a blocking move goes on to poll, the other returns the reply
move_abs_replied(t) ==
    /\ tpc[t] = "check" /\ op[t].kind = "move_abs" /\ ~polled[t]
    /\ ~unexpected(send_reply[t], message[t], Address(t))
    /\ lock' = release(lock, t)
    /\ result' = [result EXCEPT ![t] = send_reply[t]]
    /\ tpc' = [tpc EXCEPT ![t] = IF op[t].blocking THEN "poll" ELSE "returned"]
    /\ UNCHANGED <<op, message, send_reply, polled, raised, wire_out, wire_in,
                   moving, last_port_op>>
    /\ DeviceFrame

\* poll_until_idle, asciidevice.py line 127: the empty command is sent to
\* axis 0 of the device
poll_until_idle(t) ==
    /\ tpc[t] = "poll"
    /\ message' = [message EXCEPT ![t] =
                     [device_address |-> Address(t), axis_number |-> 0,
                      message_id |-> -1, data |-> <<>>]]
    /\ polled' = [polled EXCEPT ![t] = TRUE]
    /\ tpc' = [tpc EXCEPT ![t] = "send"]
    /\ UNCHANGED <<op, send_reply, result, raised, lock, wire_out, wire_in,
                   moving, last_port_op>>
    /\ DeviceFrame

\* asciidevice.py lines 128-131: send has returned the reply to a poll; the
\* loop ends when the status is IDLE and goes round after 0.05 s if not
poll_until_idle_replied(t) ==
    /\ tpc[t] = "check" /\ op[t].kind = "move_abs" /\ polled[t]
    /\ ~unexpected(send_reply[t], message[t], Address(t))
    /\ lock' = release(lock, t)
    /\ tpc' = [tpc EXCEPT ![t] = IF idle(send_reply[t]) THEN "returned" ELSE "poll"]
    /\ UNCHANGED <<op, message, send_reply, result, polled, raised, wire_out,
                   wire_in, moving, last_port_op>>
    /\ DeviceFrame

\* the device addressed handles the first command on the wire and answers
\* it: a move command starts the axis or is rejected, and the reply
\* reports the status of the device.  The line names the address, axis
\* and message id of the command (wrong = "") or differs in one of them,
\* as a line of another device or a damaged line would.
device_answers(wrong) ==
    /\ wire_out # <<>>
    /\ LET c == Head(wire_out)
       IN \E starts \in BOOLEAN :
            LET now == IF c.data # <<>> /\ starts
                       THEN [moving EXCEPT ![c.device_address] = TRUE] ELSE moving
            IN /\ moving' = now
               /\ wire_in' = Append(wire_in,
                    [device_address |-> IF wrong = "address" THEN 3 - c.device_address
                                        ELSE c.device_address,
                     axis_number |-> IF wrong = "axis" THEN 1 - c.axis_number
                                     ELSE c.axis_number,
                     message_id |-> IF wrong = "id"
                                    THEN (IF c.message_id = -1 THEN 0 ELSE -1)
                                    ELSE c.message_id,
                     device_status |-> IF now[c.device_address] THEN "BUSY" ELSE "IDLE",
                     answers |-> c.thread])
    /\ wire_out' = Tail(wire_out)
    /\ UNCHANGED <<tpc, op, message, send_reply, result, polled, raised, lock,
                   last_port_op>>
    /\ DeviceFrame

\* no device answers the first command on the wire
device_silent ==
    /\ wire_out # <<>>
    /\ wire_out' = Tail(wire_out)
    /\ UNCHANGED <<tpc, op, message, send_reply, result, polled, raised, lock,
                   wire_in, moving, last_port_op>>
    /\ DeviceFrame

\* the axis of the device at address a reaches its target
axis_stops(a) ==
    /\ moving[a]
    /\ moving' = [moving EXCEPT ![a] = FALSE]
    /\ UNCHANGED <<tpc, op, message, send_reply, result, polled, raised, lock,
                   wire_out, wire_in, last_port_op>>
    /\ DeviceFrame

\* the messages handed to send: they name any device, axis 0 or 1, and have
\* a message id or none
Messages ==
    { [device_address |-> a, axis_number |-> ax, message_id |-> id, data |-> <<"h", "o", "m", "e">>] :
        a \in {0, 2}, ax \in {0, 1}, id \in {-1, 0, 2} }

\* Inputs of the parser

\* the words of a reply of the linear stage
FlagOK == <<"O", "K">>
FlagRJ == <<"R", "J">>
StatusIDLE == <<"I", "D", "L", "E">>
StatusBUSY == <<"B", "U", "S", "Y">>
NoWarning == <<"-", "-">>
WarningWR == <<"W", "R">>
CRLF == <<"\r", "\n">>

\* the line a device sends, without checksum and line end: "@", "#" or "!",
\* the address on two digits, the axis, the message id on two digits when
\* there is one (id # -1), and for a reply the flag, the status, the
\* warning and the data, for an info message the data, for an alert the
\* status, the warning and the data when there are any
ReplyBody(t, addr, axis, id, w, data) ==
    LET sp == <<" ">>
        head == <<t>> \o format_02d(addr) \o sp \o format_d(axis)
                    \o (IF id = -1 THEN <<>> ELSE sp \o format_02d(id))
    IN CASE t = "@" -> head \o sp \o w[1] \o sp \o w[2] \o sp \o w[3] \o sp \o data
         [] t = "#" -> head \o sp \o data
         [] t = "!" -> head \o sp \o w[2] \o sp \o w[3]
                            \o (IF data = <<>> THEN <<>> ELSE sp \o data)

\* the checksum a device appends: the two's complement of the sum of the
\* bytes after the message type, modulo 256, in two uppercase hexadecimal
\* digits
Lrc(body) ==
    LET v == (256 - (SumOrd(Tail(body)) % 256)) % 256
    IN <<HexDigits[(v \div 16) + 1], HexDigits[(v % 16) + 1]>>

\* the same digits in lowercase
LowerHexDigits == <<"0", "1", "2", "3", "4", "5", "6", "7", "8", "9", "a", "b", "c", "d", "e", "f">>
lower(h) == [j \in 1..Len(h) |-> LowerHexDigits[CHOOSE d \in 1..16 : HexDigits[d] = h[j]]]

\* the line with no checksum, with its checksum, with the checksum A5 and
\* with its checksum in lowercase
Line(body, c) ==
    CASE c = "none" -> body \o CRLF
      [] c = "correct" -> body \o <<":">> \o Lrc(body) \o CRLF
      [] c = "A5" -> body \o <<":", "A", "5">> \o CRLF
      [] c = "lower" -> body \o <<":">> \o lower(Lrc(body)) \o CRLF
Checksums == {"none", "correct", "A5", "lower"}

ReplyWords == { <<FlagOK, StatusIDLE, NoWarning>>, <<FlagRJ, StatusBUSY, WarningWR>> }
ReplyData == { <<"0">>, <<"1", "2", "3", "4", "5">>, <<"5", " ", "a", "b", "c">> }

\* the fields of the lines read: a reply has data, an alert has no message id
MessageTypes == {"@", "#", "!"}
Addresses == {1, 12}
Axes == {0, 1}
MessageIds == {-1, 2}
Canonical(t, id, d) == (t = "@" => d # <<>>) /\ (t = "!" => id = -1)

\* a reply whose bytes after the message type sum to 0 modulo 256
ZeroSumReply == <<"@", "9", "9", " ", "1", " ", "O", "K", " ", "I", "D", "L", "E", " ", "-", "-", " ", "9", "9", "9">>

\* rs is a reply, an info message or an alert with canonical fields, with
\* or without checksum
IsReplyString(rs) ==
    \/ \E t \in MessageTypes, a \in Addresses, ax \in Axes, id \in MessageIds,
          w \in ReplyWords, d \in ReplyData \cup {<<>>}, c \in Checksums :
            Canonical(t, id, d) /\ rs = Line(ReplyBody(t, a, ax, id, w, d), c)
    \/ \E c \in Checksums : rs = Line(ZeroSumReply, c)

\* lines that are no replies: too short, and of an unknown type with the
\* checksum of its bytes
Malformed == { <<"@", "0", "1", "\r", "\n">>, <<"?", "0", "1", " ", "0", " ", "x", ":", "B", "7", "\r", "\n">> }

\* the reply "@01 1 02 OK IDLE -- 12345" with the checksum of its bytes, 3B,
\* and with the checksum A5
Example3B == <<"@", "0", "1", " ", "1", " ", "0", "2", " ", "O", "K", " ", "I", "D", "L", "E", " ", "-", "-", " ", "1", "2", "3", "4", "5", ":", "3", "B", "\r", "\n">>
ExampleA5 == <<"@", "0", "1", " ", "1", " ", "0", "2", " ", "O", "K", " ", "I", "D", "L", "E", " ", "-", "-", " ", "1", "2", "3", "4", "5", ":", "A", "5", "\r", "\n">>

-----------------------------------------------------------------------------
(* Specifications *)

\* a session with the inputs drawn widely and its evaluations bounded
Next ==
    \/ \E ls \in LinSpans, cs \in CoupSpans : fine_tune_nm_enter(ls, cs)
    \/ fine_tune_nm_setup
    \/ minimize_start
    \/ parameter_changer
    \/ f_costfunction(MeasWide)
    \/ f_depth_check
    \/ minimize_next_vertex
    \/ minimize_simplex_done
    \/ minimize_loop(StepsWide, MaxEvals)
    \/ minimize_more(StepsWide, MaxEvals)
    \/ minimize_iter_end
    \/ callback
    \/ minimize_return
    \/ handler
    \/ finish

Spec == Init /\ [][Next]_vars

\* a session run to the iteration cap: the inputs are drawn narrowly and
\* only the program bounds its evaluations
InitIter == InitWith({VnaElsewhere}, {2}, {TRUE}) /\ DefaultArgs /\ IdleHelpers /\ IdleZaber

NextIter ==
    \/ \E ls \in {10}, cs \in CoupSpans : fine_tune_nm_enter(ls, cs)
    \/ fine_tune_nm_setup
    \/ minimize_start
    \/ parameter_changer
    \/ f_costfunction(MeasNarrow)
    \/ f_depth_check
    \/ minimize_next_vertex
    \/ minimize_simplex_done
    \/ minimize_loop(StepsNarrow, 4 * maxiter + 4)
    \/ minimize_more(StepsNarrow, 4 * maxiter + 4)
    \/ minimize_iter_end
    \/ callback
    \/ minimize_return
    \/ handler
    \/ finish

SpecIter == InitIter /\ [][NextIter]_vars

\* a sequence of sessions, each with its evaluations bounded
NextSessions ==
    \/ \E ls \in {10}, cs \in CoupSpans : fine_tune_nm_enter(ls, cs)
    \/ \E ls \in {10}, cs \in CoupSpans :
          fine_tune_nm_again(ls, cs, MaxSessions, MaxStart)
    \/ fine_tune_nm_setup
    \/ minimize_start
    \/ parameter_changer
    \/ f_costfunction(MeasNarrow)
    \/ f_depth_check
    \/ minimize_next_vertex
    \/ minimize_simplex_done
    \/ minimize_loop(StepsNarrow, MaxEvals)
    \/ minimize_more(StepsNarrow, MaxEvals)
    \/ minimize_iter_end
    \/ callback
    \/ minimize_return
    \/ handler
    \/ finish

SpecSessions == InitIter /\ [][NextSessions]_vars

\* a session with any of small_change and scan_coupling: the inputs are
\* drawn narrowly and its evaluations bounded
InitCold ==
    /\ InitWith({VnaElsewhere}, {2}, {TRUE})
    /\ small_change \in BOOLEAN
    /\ scan_coupling \in BOOLEAN
    /\ IdleHelpers
    /\ IdleZaber

NextCold ==
    \/ \E ls \in {10}, cs \in CoupSpans : fine_tune_nm_enter(ls, cs)
    \/ fine_tune_nm_lookup(ColdTables)
    \/ lin_stage_start
    \/ scan_coup_start
    \/ scan_coup_sample(Deps, MaxScan)
    \/ scan_coup_move
    \/ scan_coup_end
    \/ lin_stage_scanned
    \/ lin_stage_select(PullMeas)
    \/ lin_stage_loop
    \/ lin_stage_redetect(PullLists, MaxPull)
    \/ tune_linstage(Retunes)
    \/ lin_stage_return
    \/ fine_tune_nm_pulled
    \/ fine_tune_nm_scan
    \/ fine_tune_nm_scanned
    \/ fine_tune_nm_setup
    \/ minimize_start
    \/ parameter_changer
    \/ f_costfunction(MeasNarrow)
    \/ f_depth_check
    \/ minimize_next_vertex
    \/ minimize_simplex_done
    \/ minimize_loop(StepsNarrow, MaxEvals)
    \/ minimize_more(StepsNarrow, MaxEvals)
    \/ minimize_iter_end
    \/ callback
    \/ minimize_return
    \/ handler
    \/ finish

SpecCold == InitCold /\ [][NextCold]_vars

\* lines read from the port are parsed and encoded again
NextReply ==
    \/ \E t \in MessageTypes, a \in Addresses, ax \in Axes, id \in MessageIds,
          w \in ReplyWords, d \in ReplyData \cup {<<>>}, c \in Checksums :
            Canonical(t, id, d) /\ AsciiReply_init(Line(ReplyBody(t, a, ax, id, w, d), c))
    \/ \E c \in Checksums : AsciiReply_init(Line(ZeroSumReply, c))
    \/ \E rs \in Malformed \cup {Example3B, ExampleA5} : AsciiReply_init(rs)
    \/ AsciiReply_encode

\* binary commands are encoded and the frames decoded
NextBinary ==
    \/ \E dn \in ByteEnds, cn \in ByteEnds, d \in DataEnds, id \in {-1} \cup ByteEnds :
          BinaryCommand_init(dn, cn, d, id)
    \/ BinaryCommand_encoded
    \/ \E id \in BOOLEAN : BinaryReply_init(id)

\* two threads use their devices on the shared port
NextZaber ==
    \/ \E t \in Threads, position \in {20997}, blocking \in BOOLEAN :
          move_abs(t, position, blocking)
    \/ \E t \in Threads, msg \in Messages : send(t, msg)
    \/ \E t \in Threads : send_enter(t)
    \/ \E t \in Threads : write(t)
    \/ \E t \in Threads : read(t)
    \/ \E t \in Threads : readline(t)
    \/ \E t \in Threads : readline_timeout(t)
    \/ \E t \in Threads : send_raises(t)
    \/ \E t \in Threads : send_returns(t)
    \/ \E t \in Threads : move_abs_replied(t)
    \/ \E t \in Threads : poll_until_idle(t)
    \/ \E t \in Threads : poll_until_idle_replied(t)
    \/ \E wrong \in {"", "address", "axis", "id"} : device_answers(wrong)
    \/ device_silent
    \/ \E a \in 1..2 : axis_stops(a)

\* a helper called on its own, outside a session
InitHelper ==
    InitWith({VnaAtTarget, VnaElsewhere}, {2}, {TRUE}) /\ DefaultArgs /\ IdleHelpers /\ IdleZaber

\* one detection
NextDetect ==
    \/ res_detect(DetectArgs)
    \/ phasegrad_settings
    \/ phasegrad_config
    \/ phasegrad_first_trace
    \/ phasegrad_next_trace
    \/ phasegrad_finally
    \/ find_peaks

SpecDetect == InitHelper /\ [][NextDetect]_vars

\* one coupling scan
NextScan ==
    \/ scan_coup
    \/ scan_coup_start
    \/ scan_coup_sample(Deps, ScanPasses)
    \/ scan_coup_move
    \/ scan_coup_end

SpecScan == InitHelper /\ [][NextScan]_vars

\* one call of the coarse-puller
NextPull ==
    \/ lin_stage_fine_tune
    \/ lin_stage_start
    \/ scan_coup_start
    \/ scan_coup_sample(Deps, MaxScan)
    \/ scan_coup_move
    \/ scan_coup_end
    \/ lin_stage_scanned
    \/ lin_stage_select(PullMeas)
    \/ lin_stage_loop
    \/ lin_stage_redetect(PullLists, PullCap + 1)
    \/ tune_linstage(Retunes)
    \/ lin_stage_return

SpecPull == InitHelper /\ [][NextPull]_vars

\* lookups in a table
NextLookup == position_lookup(Tables)

SpecLookup == InitHelper /\ [][NextLookup]_vars

\* probes of a resonance
NextProbe == tone_depth_lin(Centers, Amps)

SpecProbe == InitHelper /\ [][NextProbe]_vars

\* the helpers that bracket their use of the VNA, called on their own and
\* one inside the other.  A detection is running between its call and its
\* return or raise; no helper is running when each of them has not been
\* called or has returned or raised.
DetRunning == {"start", "config", "trace", "finally", "peaks"}
HelpersResting ==
    /\ det_pc \notin DetRunning
    /\ pull_pc \in {"idle", "done", "raised"}
    /\ scan_pc = "idle"

\* a detection over two stitched sub-intervals, and the amplitude of a probe
BracketArgs == {DetectArg(-12, 12, 3, 4, 10, 5)}
BracketAmps == {20}

\* res_detect, tone_depth_lin and lin_stage_fine_tune are called with the VNA
\* as the session found it; lin_stage_fine_tune calls res_detect and
\* tone_depth_lin at lines 204-205 and res_detect at line 220, waits for
\* them, and an error of theirs ends it
NextBrackets ==
    \/ /\ exc = "none"
       /\ \/ HelpersResting /\ vna = vna_entry
          \/ pull_pc \in {"detect", "redetect"}
       /\ res_detect(BracketArgs)
    \/ phasegrad_settings
    \/ phasegrad_config
    \/ phasegrad_first_trace
    \/ phasegrad_next_trace
    \/ phasegrad_finally
    \/ find_peaks
    \/ /\ det_pc \notin DetRunning
       /\ \/ HelpersResting /\ vna = vna_entry
          \/ pull_pc = "detect"
       /\ tone_depth_lin(Centers, BracketAmps)
    \/ /\ HelpersResting /\ vna = vna_entry /\ exc = "none"
       /\ lin_stage_fine_tune
    \/ /\ det_pc \notin DetRunning /\ exc = "none"
       /\ \/ lin_stage_start
          \/ scan_coup_start
          \/ scan_coup_sample(Deps, MaxScan)
          \/ scan_coup_move
          \/ scan_coup_end
          \/ lin_stage_scanned
          \/ lin_stage_select(PullMeas)
          \/ lin_stage_loop
          \/ lin_stage_redetect(PullLists, MaxPull)
          \/ tune_linstage(Retunes)
          \/ lin_stage_return

SpecBrackets == InitHelper /\ [][NextBrackets]_vars

SpecReply == InitHelper /\ [][NextReply]_vars

SpecBinary == InitHelper /\ [][NextBinary]_vars

SpecZaber == InitHelper /\ [][NextZaber]_vars

\* the session is one thread: it always takes its next step
FairSpecIter == SpecIter /\ WF_vars(NextIter)

\* blocking and non-blocking moves of the two devices.  The steps of a
\* thread inside move_abs and poll_until_idle, and the steps of the port:
\* a command written is handled, answered or not.
MoveStep(t) ==
    \/ send_enter(t)
    \/ write(t)
    \/ read(t)
    \/ readline(t)
    \/ readline_timeout(t)
    \/ send_raises(t)
    \/ move_abs_replied(t)
    \/ poll_until_idle(t)
    \/ poll_until_idle_replied(t)

PortStep ==
    \/ \E wrong \in {"", "address", "axis", "id"} : device_answers(wrong)
    \/ device_silent

NextMoves ==
    \/ \E t \in Threads, position \in {20997}, blocking \in BOOLEAN :
          move_abs(t, position, blocking)
    \/ \E t \in Threads : MoveStep(t)
    \/ PortStep
    \/ \E a \in 1..2 : axis_stops(a)

SpecMoves == InitHelper /\ [][NextMoves]_vars

\* a thread goes on with its code (the lock of the port is free between
\* the polls of the other thread, which sleeps 0.05 s, so a thread that
\* waits for it gets it), and the port handles what is written to it
FairSpecMoves ==
    /\ SpecMoves
    /\ \A t \in Threads : SF_vars(MoveStep(t))
    /\ WF_vars(PortStep)

-----------------------------------------------------------------------------
(* Properties *)

Exited == pc \in {"returned", "raised"}
InOptimizer == phase \in {"simplex", "iter"}
LastLevel == levels_its[Len(levels_its)][3]
Restored == [settings EXCEPT !.center = FR]

\* C1: when an error other than the termination signal escapes the
\* optimizer, the VNA has been restored with the settings saved at entry and
\* re-centred on the target, and qt.mend() has run, before the error reaches
\* the caller of fine_tune_nm.
C1_ErrorUnwindsThroughRestore ==
    (pc = "raised" /\ InOptimizer /\ exc # Termination)
        => (vna = Restored /\ ~measuring)

\* C2: after fine_tune_nm exits, by a return or by an exception, the VNA
\* center frequency, span, bandwidth and power equal their values at entry.
C2_VnaAsAtEntry ==
    Exited => /\ vna.center = vna_entry.center
              /\ vna.span = vna_entry.span
              /\ vna.bw = vna_entry.bw
              /\ vna.power = vna_entry.power

\* C3: the termination signal, raised by the evaluator or by the callback,
\* never leaves fine_tune_nm: once it is raised no further point is
\* evaluated and no motor moves, and the session returns the iteration log
\* with the VNA restored from the entry settings and re-centred on the
\* target and qt.mend() called.
C3_TerminationConsumed ==
    /\ [](pc = "raised" => exc # Termination)
    /\ []((pc = "returned" /\ exc = Termination)
            => /\ force_termination = TRUE
               /\ vna = Restored
               /\ ~measuring
               /\ ret = [n \in {"levels_its"} |-> levels_its])
    /\ [][(exc = Termination /\ pc \in {"except", "finish"})
            => /\ levels_its' = levels_its
               /\ zls' = zls
               /\ tnm' = tnm
               /\ pc' \in {"finish", "returned"}]_vars

C3_ReturnedByTermination ==
    /\ pc = "returned"
    /\ exc = Termination
    /\ nstep >= 1
    /\ vna_entry = VnaElsewhere
    /\ Len(levels_its) >= 4

\* C4: once a vertex has been evaluated, and until the session exits, the
\* best-so-far point x_min has its length inside
\* [x0.length - lin_span, x0.length + lin_span].
C4_BestWithinBounds ==
    (InOptimizer /\ Len(levels_its) > 0)
        => (x0[1] - lin_span <= x_min[1] /\ x_min[1] <= x0[1] + lin_span)

\* C5: every point at which the two motors are commanded has its length
\* inside [x0.length - lin_span, x0.length + lin_span] and its coupling >= 0.
C5_CommandedWithinBounds ==
    pc = "f_cost"
        => /\ x0[1] - lin_span <= x[1]
           /\ x[1] <= x0[1] + lin_span
           /\ x[2] >= 0

\* C6: after every completed vertex evaluation, level_min is the least cost
\* of the iteration log and x_min is a vertex logged with that cost.
C6_BestIsMinOfLog ==
    pc = "nm_ret"
        => /\ \A i \in 1..Len(levels_its) : level_min <= levels_its[i][3]
           /\ \E i \in 1..Len(levels_its) :
                levels_its[i] = <<x_min[1], x_min[2], level_min>>

\* C7: when the optimizer completes without the depth tolerance being met,
\* fine_tune_nm returns normally and the value it returns carries the
\* best-so-far result and a flag telling this outcome from a termination.
C7_ReturnCarriesBestAndFlag ==
    (pc = "returned" /\ force_termination = FALSE)
        => {"x_min", "force_termination"} \subseteq DOMAIN ret

\* C8: the iteration counter nstep of the callback never exceeds 40, and
\* the session eventually exits, by a return or by an error.
C8_IterationCapAndExit ==
    /\ [](nstep <= 40)
    /\ <>Exited

C8_CapReached ==
    /\ pc = "returned"
    /\ nstep = 40
    /\ force_termination = FALSE

\* C9: the span of a cost evaluation is 200 MHz while the number n of
\* callbacks so far is <= 5, 100 MHz for 6 <= n <= 20 and 50 MHz for n > 20,
\* and it never increases during a session.
C9_SpanSchedule ==
    /\ [](pc = "f_depth"
            => span = IF nstep <= 5 THEN 200000
                      ELSE IF nstep <= 20 THEN 100000 ELSE 50000)
    /\ [][span # 0 => span' <= span]_vars

C9_NarrowestSpanUsed ==
    /\ pc = "f_depth"
    /\ nstep > 20
    /\ span = 50000

\* C10: for a non-empty list of candidates the cost is the least, over the
\* candidates i, of ((freq_i - fr)/err_lin)^2 + (depth_i/err_depth)^2
\* (here times err_lin^2 * err_depth^2), and it is never negative.
C10_CostIsMinOverCandidates ==
    (pc = "f_depth" /\ meas # <<>>)
        => LET L(i) == (meas[i].Frequency - FR) * (meas[i].Frequency - FR) * 100
                       + meas[i].depth * meas[i].depth * 100
           IN /\ LastLevel >= 0
              /\ \E i \in 1..Len(meas) : LastLevel = L(i)
              /\ \A i \in 1..Len(meas) : LastLevel <= L(i)

C10_SecondCandidateIsCheaper ==
    /\ pc = "f_depth"
    /\ Len(meas) = 2
    /\ CostTerm(meas[2], FR) < CostTerm(meas[1], FR)
    /\ LastLevel = CostTerm(meas[2], FR)

-----------------------------------------------------------------------------
(* C11.  Whenever a trace is acquired for a resonance detection (res_detect
   called by the cost function or by the coarse-puller), the number of
   points set on the VNA is at least five per resolution bandwidth over the
   span of the trace: nop >= 5 * span / rbw. *)
C11_DetectionNop ==
    span # 0 => nop * rbw >= PointsPerRbw * span

-----------------------------------------------------------------------------
(* C12.  For every window, of one trace or of stitched sub-intervals, the
   frequencies the detector returns are in ascending order, each lies in
   [fmin, fmax], and any two distinct ones differ by at least dist_peaks. *)
C12_DetectorOutput ==
    det_pc = "returned" =>
        \A a \in 1..Len(res_freqs), b \in 1..Len(res_freqs) :
            /\ args.fmin <= res_freqs[a] /\ res_freqs[a] <= args.fmax
            /\ a < b => res_freqs[a] <= res_freqs[b]
            /\ (a < b /\ res_freqs[a] # res_freqs[b])
                   => res_freqs[b] - res_freqs[a] >= args.dist_peaks

(* C13.  An instrument error raised by a VNA setting or a trace acquisition
   inside phasegrad_VNA, in the first or a later sub-interval, reaches the
   caller of res_detect as that error: the call does not return normally
   and raises no other error. *)
C13_InstrumentErrorReachesCaller ==
    (fault # "none" /\ det_pc \in {"peaks", "returned", "raised"})
        => (det_pc = "raised" /\ exc = "IOError")

(* C14.  tone_depth_lin(f_c) returns as depth the minimum of |sample|^2
   over the whole trace, and as frequency the frequency of the sample where
   that minimum occurs. *)
C14_ProbeReturnsMinimum ==
    tone.trace # <<>> =>
        /\ tone.depth = NpMin(tone.trace[2])
        /\ \E j \in 1..Len(tone.trace[2]) :
              /\ tone.trace[2][j] = NpMin(tone.trace[2])
              /\ tone.Frequency = tone.trace[1][j]

-----------------------------------------------------------------------------
\* the positions of the rows of the table whose frequency is within
\* LookupTol of the target
Matching == {lookup[j][2] : j \in {i \in 1..Len(lookup) : Abs(lookup[i][1] - FR) < LookupTol}}

(* C15.  The list position_lookup returns is ascending, its first element
   is the smallest matching position, and consecutive elements differ by at
   least 1.8 mm. *)
C15_PosesAscendingFromSmallest ==
    (lookup # <<>> /\ Matching # {}) =>
        /\ poses # <<>>
        /\ \A p \in Matching : poses[1] <= p
        /\ \A j \in 1..(Len(poses) - 1) : poses[j + 1] >= poses[j] + MinSpacing

(* C16.  The positions position_lookup deduplicates are exactly the
   positions of all rows of the table whose frequency is within 0.01 GHz of
   the target, the rows that share a frequency at different positions
   included. *)
C16_AllMatchingRowsConsidered ==
    lookup # <<>> => {positions[j] : j \in 1..Len(positions)} = Matching

(* C20.  scan_coup stops at the first sample whose depth is at most -25 dB,
   a sample of exactly -25 dB included: no rotary move follows that sample,
   and the rotary motor is left where the sample was measured. *)
C20_ScanStopsAtThreshold ==
    /\ scan_pc = "move" => dep > ScanThreshold
    /\ (scan_pc \in {"end", "done"} /\ dep <= ScanThreshold)
          => tnm = current_position + scan_i * step

(* C17.  With small_change=False and no row of the table within 10 MHz of
   the target, position_lookup returns an empty list and the session does
   not fail on it: it goes on to tune from the current position. *)
C17_EmptyLookupDoesNotFail ==
    (~small_change /\ lookup # <<>> /\ Matching = {})
        => (poses = <<>> /\ ~(pc = "raised" /\ phase = "setup"))

-----------------------------------------------------------------------------
\* the adaptive moves a call of lin_stage_fine_tune has issued: m counts
\* them once the detection that follows a move has returned
Moves == m + (IF pull_pc = "redetect" THEN 1 ELSE 0)

(* C18.  One call of lin_stage_fine_tune makes at most 25 passes of its
   loop, so at most 25 calls of move_adapt. *)
C18_AtMost25Moves ==
    Moves <= PullCap

(* C19.  The coarse-puller issues an adaptive move only while the selected
   resonance is more than 1 MHz from the target: with the first selected
   resonance within 1 MHz it issues none, and when its loop ends without the
   cap and without the fallback of an empty window, the last selected
   resonance is within 1 MHz of the target. *)
C19_MovesOnlyWhileFar ==
    /\ pull_pc = "redetect" => Abs(FR - sel_res) > PullThreshold
    /\ (pull_pc \in {"restore", "done"} /\ m = 0 /\ tunes = 0) => zls \in ZlsStarts
    /\ (pull_pc \in {"restore", "done"} /\ m <= PullCap /\ tunes = 0)
          => Abs(FR - sel_res) <= PullThreshold

\* the loop was entered and ended by its test, after moves
C19_PulledWithinThreshold ==
    pull_pc = "done" /\ m > 1 /\ m <= PullCap /\ tunes = 0

-----------------------------------------------------------------------------
(* C28.  Optimizer state is per-session.  Every call of fine_tune_nm that
   gets past line 49 starts with an empty iteration log, the iteration
   counter at 0, the detection span at 200 MHz and the best-so-far pair
   reset; so in a sequence of sessions the log holds no more entries than
   the session has evaluated vertices, the counter no more than the session
   has completed iterations, and the log a session returns is the log of
   that session. *)
C28_StatePerSession ==
    /\ [][(session' # session /\ pc' = "setup")
            => (levels_its' = <<>> /\ nstep' = 0 /\ vnaspan' = Span200
                /\ x_min' = NoPoint /\ level_min' = 0)]_vars
    /\ [](phase = "simplex" => Len(levels_its) <= k)
    /\ [](phase = "iter" => (nstep <= iterations /\ Len(levels_its) <= 3 + 4 * iterations + ne))
    /\ [](nstep <= NarrowAfter => vnaspan = Span200)
    /\ []((pc = "returned" /\ phase = "simplex") => Len(ret.levels_its) <= k)

\* a second session has returned its log after a first one returned its own
C28_SecondSessionReturned ==
    session = 2 /\ pc = "returned" /\ Len(ret.levels_its) >= 1

(* C29.  The first vertex the optimizer evaluates is the current position:
   the length read with zls.current_position() and the value passed to
   zls.move_abs_mm for the vertex x0 are in the same unit, so evaluating x0
   leaves the stage at the microstep position it occupied. *)
C29_FirstVertexIsCurrentPosition ==
    (phase = "simplex" /\ k = 1 /\ pc = "f_cost") => 20 * zls = x0[1]

(* C30.  In every vertex evaluation both motor moves of the vertex have
   returned before the cost evaluation touches the VNA: while the cost is
   evaluated and the depth probed both axes are at the vertex, no motor
   moves, and while the motors are moved nothing is measured or logged. *)
C30_MovesBeforeMeasurement ==
    /\ [](pc \in {"f_cost", "f_depth"} => (zls = move_abs_mm(x[1]) /\ tnm = x[2]))
    /\ [][(pc \in {"f_cost", "f_depth"}) => (zls' = zls /\ tnm' = tnm)]_vars
    /\ [][(pc = "f_move") => (UNCHANGED <<vna, span, nop, rbw, meas, levels_its>>)]_vars

\* a proposed point has been moved to, measured and is being probed
C30_ProposedPointProbed ==
    pc = "f_depth" /\ phase = "iter" /\ x # x0 /\ tnm = x[2] /\ tnm # x0[2]

-----------------------------------------------------------------------------
\* the line read ends in ':XX'
HasChecksum(rs) == Len(strip(rs)) >= 5 /\ strip(rs)[Len(strip(rs)) - 2] = ":"

(* C23.  A reply string ending in ':XX' is accepted by AsciiReply if and
   only if XX is the last two uppercase hexadecimal digits of
   ((S & 0xFF) XOR 0xFF) + 1, S being the sum of the character codes after
   the message type and before the ':', also when S & 0xFF is 0 and the
   digits are 00; with any other XX it is rejected with ValueError.  A line
   that is accepted carries the expected checksum, and a well-formed reply
   that carries it is accepted with that checksum as its attribute. *)
C23_ChecksumDecidesAcceptance ==
    (reply_string # <<>> /\ HasChecksum(reply_string)) =>
        LET st == strip(reply_string)
            XX == SubSeq(st, Len(st) - 1, Len(st))
            S == SumOrd(SubSeq(st, 2, Len(st) - 3))
            v == (256 - (S % 256)) % 256
            expected == <<HexDigits[(v \div 16) + 1], HexDigits[(v % 16) + 1]>>
        IN /\ areply.error = "none" => (XX = expected /\ areply.checksum = XX)
           /\ XX # expected => areply = ValueError
           /\ (XX = expected /\ IsReplyString(reply_string)) => areply.error = "none"

\* the reply whose sum is 0 modulo 256 has been accepted with the checksum 00
C23_ZeroSumAccepted ==
    /\ reply_string = Line(ZeroSumReply, "correct")
    /\ areply.error = "none"
    /\ areply.checksum = <<"0", "0">>

(* C24.  For every syntactically valid reply string s with canonical
   fields, of any of the three message types, with or without message id,
   data and checksum, AsciiReply(s).encode() == s. *)
C24_EncodeReproducesInput ==
    (IsReplyString(reply_string) /\ retstr # <<>>) => retstr = reply_string

\* the attributes the example yields, with the checksum c
ExampleReply(c) ==
    [error |-> "none", checksum |-> c, message_type |-> "@", device_address |-> 1,
     axis_number |-> 1, message_id |-> 2, reply_flag |-> FlagOK,
     device_status |-> StatusIDLE, warning_flag |-> NoWarning,
     data |-> <<"1", "2", "3", "4", "5">>]

(* C25, as stated.  Parsing "@01 1 02 OK IDLE -- 12345:A5\r\n" succeeds and
   yields device_address=1, axis_number=1, message_id=2, reply_flag=OK,
   device_status=IDLE, warning_flag=--, data="12345", checksum="A5", and
   encode() of the parsed reply reproduces the input string. *)
C25_ExampleA5Parses ==
    reply_string = ExampleA5 =>
        (areply = ExampleReply(<<"A", "5">>) /\ (retstr # <<>> => retstr = ExampleA5))

(* C25, amended.  The checksum of that reply is 3B: parsing
   "@01 1 02 OK IDLE -- 12345:3B\r\n" succeeds and yields those attributes
   with checksum="3B", and encode() reproduces the input string; with the
   checksum A5 the string is rejected with ValueError. *)
C25_Example3BParses ==
    /\ reply_string = Example3B =>
          (areply = ExampleReply(<<"3", "B">>) /\ (retstr # <<>> => retstr = Example3B))
    /\ reply_string = ExampleA5 => areply = ValueError

\* the example with the checksum 3B has been parsed and encoded
C25_Example3BEncoded ==
    reply_string = Example3B /\ retstr = Example3B

-----------------------------------------------------------------------------
(* C26.  A frame is six bytes: the device, the command and the four bytes
   of the signed 32-bit data, least significant first.  For device, command
   and message id in 0..255 and data in [-2^23, 2^23 - 1], decoding the
   encoded command with message ids enabled yields the same device,
   command, message id and data; for a command without message id,
   decoding without message ids yields the same device, command and
   signed 32-bit data. *)
C26_BinaryRoundTrip ==
    /\ packed # <<>> =>
          /\ Len(packed) = 6
          /\ \A j \in 1..6 : packed[j] \in 0..255
          /\ packed[1] = bcommand.device_number
          /\ packed[2] = bcommand.command_number
          /\ bcommand.message_id = -1 =>
                /\ bcommand.data >= 0 =>
                      bcommand.data = packed[3] + 256 * packed[4] + 65536 * packed[5]
                                         + (2^24) * packed[6]
                /\ bcommand.data < 0 =>
                      bcommand.data + 1 = - ((255 - packed[3]) + 256 * (255 - packed[4])
                                         + 65536 * (255 - packed[5]) + (2^24) * (255 - packed[6]))
    /\ (breply # NoMessage /\ bcommand.message_id # -1 /\ breply.message_id # -1
          /\ bcommand.data >= -(2^23) /\ bcommand.data <= 2^23 - 1) =>
            breply = bcommand
    /\ (breply # NoMessage /\ bcommand.message_id = -1 /\ breply.message_id = -1) =>
            breply = bcommand

\* a negative 24-bit value has been sent with a message id and decoded
C26_NegativeWithIdDecoded ==
    /\ bcommand.data = -(2^23) /\ bcommand.message_id = 255
    /\ breply = bcommand

-----------------------------------------------------------------------------
(* C21.  A blocking move of the linear stage does not return before a
   status reply reporting IDLE has been received from the device after the
   move command was sent: when it has returned, the thread has polled and
   the last reply it received answers a poll and reports IDLE.  A move
   with blocking=False returns the reply to the move command without
   polling. *)
C21_BlockingMoveWaitsForIdle ==
    \A t \in Threads :
        (tpc[t] = "returned" /\ op[t].kind = "move_abs") =>
            /\ result[t] # NoLine
            /\ op[t].blocking =>
                  /\ polled[t]
                  /\ message[t].data = <<>>
                  /\ send_reply[t].device_status = "IDLE"
            /\ ~op[t].blocking =>
                  /\ ~polled[t]
                  /\ message[t].data # <<>>
                  /\ result[t] = send_reply[t]

\* a blocking move has returned whose move command was answered BUSY
C21_ReturnedAfterBusy ==
    /\ tpc[1] = "returned" /\ op[1].kind = "move_abs" /\ op[1].blocking
    /\ result[1].device_status = "BUSY"
    /\ send_reply[1].device_status = "IDLE"

\* the reply r names the device of thread t and the axis and message id of
\* the message t sent
Expected(r, t) ==
    /\ r.device_address = Address(t)
    /\ r.axis_number = message[t].axis_number
    /\ r.message_id = message[t].message_id

(* C22.  AsciiDevice.send returns a reply only if its device address is
   the device's, its axis number the one of the command sent and its
   message id the command's (none on both sides is equal); in every other
   case it raises UnexpectedReplyError carrying the reply.  The command
   written always carries the device's own address, whatever address the
   message named. *)
C22_SendChecksReply ==
    /\ [][\A t \in Threads :
            (tpc[t] = "check" /\ tpc'[t] # "check") =>
                IF Expected(send_reply[t], t)
                THEN /\ tpc'[t] \in {"returned", "poll"}
                     /\ raised'[t] = NoError
                     /\ (op[t].kind = "send" => result'[t] = send_reply[t])
                ELSE /\ tpc'[t] = "raised"
                     /\ raised'[t] = [error |-> "UnexpectedReplyError",
                                      reply |-> send_reply[t]]
                     /\ result'[t] = result[t]]_vars
    /\ [](\A t \in Threads :
            (tpc[t] = "returned" /\ op[t].kind = "send") => Expected(result[t], t))
    /\ [](\A j \in 1..Len(wire_out) :
            wire_out[j].device_address = Address(wire_out[j].thread))

\* thread 1 has got the reply to a message that named device 2 and had a
\* message id, and thread 2 an error carrying a reply of the other axis
C22_ReturnedAndRaised ==
    /\ tpc[1] = "returned" /\ op[1].kind = "send"
    /\ result[1].message_id = 2 /\ result[1].device_address = 1
    /\ tpc[2] = "raised" /\ raised[2].error = "UnexpectedReplyError"
    /\ raised[2].reply.device_address = 2
    /\ raised[2].reply.axis_number # message[2].axis_number

(* C27.  When several threads call send on devices sharing one port, and
   the device answers the commands in order, each answered before the read
   times out: between the write of a send and the read of its reply no
   other thread writes to or reads from the port, everything on the wire
   belongs to the thread holding the lock, and the reply a thread receives
   answers its own command. *)
C27_WriteAndReadUnderOneLock ==
    /\ \A t \in Threads :
          /\ tpc[t] \in {"read", "readline"} => last_port_op = <<t, "write">>
          /\ tpc[t] \in {"write", "read", "readline", "check"} => lock.owner = t
          /\ tpc[t] = "check" => send_reply[t].answers = t
    /\ \A j \in 1..Len(wire_out) : wire_out[j].thread = lock.owner
    /\ \A j \in 1..Len(wire_in) : wire_in[j].answers = lock.owner

\* thread 1 has read the reply to its command while thread 2 waits for the
\* port
C27_ReadWhileOtherWaits ==
    /\ tpc[1] = "check" /\ send_reply[1].answers = 1
    /\ tpc[2] = "send"

-----------------------------------------------------------------------------
(* C31.  The iteration log holds exactly one entry (length, coupling, cost)
   per vertex whose cost evaluation completed, in evaluation order: the
   log changes only when a cost evaluation completes, and then by one entry
   at its end, holding the vertex and its cost; a cost evaluation that
   raises appends nothing.  The entry is appended before the depth check,
   so the vertex whose depth check raises the termination signal is the
   last entry.  While the initial simplex is evaluated the log has one
   entry per vertex evaluated. *)
C31_OneEntryPerCompletedEvaluation ==
    /\ [][(session' = session /\ levels_its' # levels_its) =>
            (/\ pc = "f_cost" /\ pc' = "f_depth"
             /\ Len(levels_its') = Len(levels_its) + 1
             /\ SubSeq(levels_its', 1, Len(levels_its)) = levels_its
             /\ levels_its'[Len(levels_its')] = <<x[1], x[2], costfunction(FR, meas')>>)]_vars
    /\ [][(pc = "f_cost" /\ pc' = "f_depth") => (levels_its' # levels_its)]_vars
    /\ [][(pc = "f_cost" /\ pc' = "except") => (levels_its' = levels_its)]_vars
    /\ [][(pc = "f_depth" /\ exc' = Termination) =>
            (/\ levels_its' = levels_its
             /\ levels_its[Len(levels_its)][1] = x[1]
             /\ levels_its[Len(levels_its)][2] = x[2])]_vars
    /\ []((phase = "simplex" /\ pc \in {"f_move", "f_cost"}) => Len(levels_its) = k - 1)
    /\ []((phase = "simplex" /\ pc \in {"f_depth", "nm_ret"}) => Len(levels_its) = k)

\* the second vertex raised the termination signal in the evaluator: the log
\* has two entries and the last is that vertex
C31_TerminatingVertexLogged ==
    /\ pc = "returned" /\ force_termination /\ phase = "simplex" /\ k = 2
    /\ Len(levels_its) = 2
    /\ levels_its[2][1] = x[1] /\ levels_its[2][2] = x[2]

\* the VNA settings lin_stage_fine_tune works with when it calls a helper:
\* after scan_coup (lines 202-203), and in the first and the later passes of
\* its loop (line 217)
VnaAfterScan == set_vna([setoutrange(vna_entry) EXCEPT !.span = Span200], FR, SetVnaRbw)
VnaInLoop(v) == [set_vna(v, sel_res, SetVnaRbw) EXCEPT !.span = PullHalfWindow]
VnaOfPuller ==
    IF pull_pc = "detect" THEN VnaAfterScan
    ELSE IF m = 0 THEN VnaInLoop(VnaAfterScan)
    ELSE VnaInLoop(VnaInLoop(VnaAfterScan))

\* C32: on normal return tone_depth_lin, res_detect and lin_stage_fine_tune
\* leave the VNA center, span, number of points, bandwidth and power as
\* they were when the helper was called, and every setbackrange restores
\* what the setoutrange of the same helper saved, also for a helper called
\* inside lin_stage_fine_tune (the brackets are LIFO).
C32_HelpersLeaveVnaAsFound ==
    /\ []((HelpersResting /\ exc = "none") => vna = vna_entry)
    /\ []((pull_pc \in {"detect", "redetect"} /\ det_pc \notin DetRunning /\ exc = "none")
            => vna = VnaOfPuller)
    /\ []((pull_pc \in {"scan", "detect", "loop", "redetect", "tuning", "restore", "done"})
            => sets = vna_entry)
    /\ [][(pull_pc = "restore" /\ pull_pc' = "done") => (vna' = sets)]_vars
    /\ [][(det_pc = "finally" /\ det_pc' = "peaks") =>
            (/\ vna' = det_settings
             /\ det_settings = (IF pull_pc \in {"detect", "redetect"}
                                THEN VnaOfPuller ELSE vna_entry))]_vars
    /\ [][(detVars' = detVars /\ pull_pc' = pull_pc /\ scan_pc' = scan_pc /\ exc' = "none")
            => (vna' = vna)]_vars

\* lin_stage_fine_tune returned after a pass of its loop and a detection
\* inside it, and a probe was made: the VNA is as it was found
C32_PulledDetectedAndProbed ==
    /\ pull_pc = "done" /\ m >= 1 /\ exc = "none"
    /\ det_pc = "returned" /\ det_settings # vna_entry
    /\ tone # NoTone
    /\ vna = vna_entry

\* C33: scan_coup rotates only after a sample, and the total rotation, from
\* the position at which it was called, never exceeds thetaspan, for every
\* step and range, also when no sample crosses the threshold.
C33_ScanStaysInRange ==
    /\ [][(tnm' # tnm) => (scan_pc = "move")]_vars
    /\ [](scan_pc \in {"sample", "move", "end", "done"}
            => tnm - current_position <= thetaspan)

\* C34: when the detection of a cost evaluation returns no candidate,
\* costfunction raises an error and returns no cost; the error is not taken
\* for the termination signal, no entry is appended to the log for that
\* vertex, and the error leaves fine_tune_nm.
C34_NoCandidateRaises ==
    /\ [][(pc = "f_cost" /\ pc' # "f_cost" /\ meas' = <<>> /\ exc' \notin {"UnboundLocalError", "IOError"})
            => (exc' = "ValueError" /\ pc' = "except" /\ levels_its' = levels_its)]_vars
    /\ [][(pc = "f_cost" /\ pc' = "f_depth") => (meas' # <<>>)]_vars
    /\ [][(pc = "except" /\ exc = "ValueError")
            => (pc' = "raised" /\ exc' = exc /\ levels_its' = levels_its
                /\ force_termination' = force_termination)]_vars
    /\ [](exc = "ValueError" => (pc \in {"except", "raised"} /\ ~force_termination))

\* the second evaluation of a session found no candidate: the error left
\* fine_tune_nm and the log holds the first vertex only
C34_RaisedAfterOneEntry ==
    /\ pc = "raised" /\ exc = "ValueError" /\ meas = <<>>
    /\ Len(levels_its) = 1
    /\ <<x[1], x[2]>> # <<levels_its[1][1], levels_its[1][2]>>

\* C35: fine_tune_nm moves no motor after the last call of the evaluator:
\* the motors move in parameter_changer only, and when the session returns,
\* by termination or by completion of the optimizer, both axes are at the
\* last evaluated vertex, the last one of the log, whether or not it is the
\* vertex of lowest cost.
C35_AxesAtLastEvaluatedVertex ==
    /\ [][(zls' # zls \/ tnm' # tnm) => (pc = "f_move")]_vars
    /\ [](pc = "returned" =>
            /\ levels_its # <<>>
            /\ zls = move_abs_mm(levels_its[Len(levels_its)][1])
            /\ tnm = levels_its[Len(levels_its)][2]
            /\ <<x[1], x[2]>> = <<levels_its[Len(levels_its)][1], levels_its[Len(levels_its)][2]>>)

\* the optimizer completed and the session returned with the axes at the
\* last vertex, which is not the one of lowest cost
C35_ReturnedAwayFromMinimum ==
    /\ pc = "returned" /\ ~force_termination
    /\ x # x_min
    /\ \E j \in 1..(Len(levels_its) - 1) : levels_its[j][3] < levels_its[Len(levels_its)][3]
    /\ zls = move_abs_mm(x[1]) /\ tnm = x[2]
    /\ zls # move_abs_mm(x_min[1])

\* the steps of fine_tune_nm before its first evaluation, and the first
\* move of parameter_changer
BeforeEvaluation == {"idle", "setup", "cold_pull", "coupling", "scan", "ini", "minimize"}

\* C36: with small_change=False and a lookup that is not empty the session
\* moves the linear stage to the largest retained candidate, the last of the
\* ascending list, and then runs lin_stage_fine_tune, which runs scan_coup
\* first; lin_stage_fine_tune has completed before the optional scan_coup
\* of the session and before the first evaluation.  With small_change=True
\* and scan_coupling=False no motor moves before the first evaluation.
C36_ColdStartOrder ==
    /\ [][(pc = "setup" /\ pc' = "cold_pull") =>
            (/\ ~small_change /\ poses' # <<>>
             /\ \A j \in 1..Len(poses') : poses'[j] <= poses'[Len(poses')]
             /\ zls' = move_abs_mm_lookup(poses'[Len(poses')])
             /\ pull_pc = "idle" /\ pull_pc' = "start")]_vars
    /\ [][(pull_pc = "start" /\ pull_pc' \notin {"start", "raised"}) =>
            (pull_pc' = "scan" /\ scan_pc' = "start")]_vars
    /\ [][(pull_pc' = "detect" /\ pull_pc # "detect") => (scan_pc = "done")]_vars
    /\ [](pull_pc # "idle" => (pc = "cold_pull" /\ levels_its = <<>>))
    /\ []((~small_change /\ pc \notin {"idle", "setup", "cold_pull", "raised"})
            => (pull_pc = "idle" /\ sets # NoSettings))
    /\ [][(pc = "cold_pull" /\ pc' \notin {"cold_pull", "raised"}) =>
            (pull_pc = "done" /\ pc' = "coupling")]_vars
    /\ [][(pc' = "scan" /\ pc # "scan") =>
            (/\ scan_coupling /\ levels_its = <<>>
             /\ (~small_change => pc = "coupling"))]_vars
    /\ [][(pc' = "f_move" /\ levels_its = <<>>) =>
            (pc \notin {"cold_pull", "scan"} /\ pull_pc = "idle" /\ scan_pc = "idle")]_vars
    /\ []((small_change /\ ~scan_coupling /\ pc \in BeforeEvaluation /\ session <= 1)
            => (zls \in ZlsStarts /\ tnm = 2 /\ pull_pc = "idle" /\ scan_pc = "idle"))

\* a cold start with two retained candidates, the coarse-puller and the
\* coupling scan: the first vertex is about to be evaluated
C36_ColdStartedWithScan ==
    /\ pc = "f_move" /\ levels_its = <<>>
    /\ ~small_change /\ scan_coupling
    /\ Len(poses) = 2 /\ poses[1] < poses[2]
    /\ sets # NoSettings /\ scan_i >= 1

\* C37: a blocking move returns in the end when every poll is answered (no
\* error leaves it) and the device reports IDLE in the end; the loop of
\* poll_until_idle has no bound of its own, so a blocking move of a device
\* that stays BUSY for ever never returns; and a poll that gets no reply
\* ends the move with TimeoutError, not with a return.
C37_BlockingMoveReturns ==
    /\ \A t \in Threads :
          ([](tpc[t] # "raised") /\ <>[](~moving[Address(t)]))
             => ((tpc[t] = "poll") ~> (tpc[t] = "returned"))
    /\ \A t \in Threads :
          (<>[](moving[Address(t)])) => [](~(tpc[t] = "returned" /\ op[t].blocking))
    /\ [][\A t \in Threads :
            (tpc[t] = "readline" /\ tpc'[t] # "readline" /\ wire_in = <<>>)
              => (tpc'[t] = "raised" /\ raised'[t].error = "TimeoutError")]_vars
    /\ [][\A t \in Threads :
            (polled[t] /\ tpc[t] # "returned" /\ tpc'[t] = "returned")
              => (tpc[t] = "check" /\ send_reply[t].device_status = "IDLE")]_vars

\* a blocking move returned: the reply to the move said BUSY and a later
\* poll was answered IDLE
C37_ReturnedAfterPolls ==
    /\ tpc[1] = "returned" /\ op[1].blocking /\ polled[1]
    /\ result[1].device_status = "BUSY"
    /\ send_reply[1].device_status = "IDLE"
    /\ tpc[2] = "raised" /\ polled[2] /\ raised[2].error = "TimeoutError"

\* the pass of the loop of lin_stage_fine_tune in which res_detect returned
\* the list fs
Redetected(fs) == lin_stage_redetect({fs}, PullCap + 1) /\ exc' = exc

\* C38: when the re-detection around the last selected resonance returns
\* no resonance and the cap of passes is not exceeded, tune_linstage is
\* called, once in the call, and the loop is left with no further adaptive
\* move; when it returns resonances and the loop goes on, the next selected
\* resonance is the first of them, the one of lowest frequency.
C38_EmptyRedetectionRetunes ==
    /\ [][(Redetected(<<>>) /\ m' <= PullCap) => (pull_pc' = "tuning" /\ tunes = 0)]_vars
    /\ [][(pull_pc' = "tuning" /\ pull_pc # "tuning") => (Redetected(<<>>) /\ m' <= PullCap)]_vars
    /\ [][(pull_pc = "tuning" /\ pull_pc' # "tuning")
            => (tunes' = 1 /\ pull_pc' \in {"restore", "raised"})]_vars
    /\ [][(tunes' # tunes) => (pull_pc = "tuning")]_vars
    /\ [](tunes >= 1 => pull_pc \in {"restore", "done", "raised"})
    /\ [][(pull_pc \in {"restore", "done", "raised"})
            => (zls' = zls /\ pull_pc' \in {"restore", "done", "raised"})]_vars
    /\ [][\A fs \in PullLists \ {<<>>} :
            (Redetected(fs) /\ m' <= PullCap)
              => (/\ sel_res' = fs[1]
                  /\ \A j \in 1..Len(fs) : fs[1] <= fs[j]
                  /\ delf' = FR - fs[1]
                  /\ pull_pc' = "loop")]_vars

\* the second pass of the loop found no resonance: tune_linstage was called
\* once and lin_stage_fine_tune returned
C38_RetunedInSecondPass ==
    /\ pull_pc = "done" /\ exc = "none"
    /\ m = 2 /\ tunes = 1
    /\ sel_res = FR + 2000

====
